---- MODULE Spec2Model ----
(***************************************************************************)
(* State-machine model of the 3D scene viewer: the SceneManager texture    *)
(* registry, material lookup, transformations and RenderScene, the render  *)
(* loop of main (Source/SceneManager.cpp) and the ViewManager camera /     *)
(* projection state (Source/DBHelper.cpp, second half: viewmanager.cpp).   *)
(*                                                                         *)
(* Units.  Lengths, speeds and projection bounds are fixed-point numbers   *)
(* in thousandths (10.0f is 10000, 0.1f is 100).  Angles (Yaw, Pitch) are  *)
(* in tenths of a degree.  Mouse coordinates are whole pixels, which a     *)
(* float represents exactly.                                               *)
(***************************************************************************)
EXTENDS Integers, Sequences, FiniteSets, TLC

VARIABLES
    m_textureMap,       \* SceneManager::m_textureMap : tag -> GL handle
    glTextures,         \* the GL context: live texture name -> uploaded image
    m_sceneTex,         \* m_textureWood, m_textureMouseBody, m_textureMouseButtons
    sceneDecoded,       \* channel count stb_image decoded for each scene file
    m_objectMaterials,  \* SceneManager::m_objectMaterials (vector)
    sink,               \* ShaderManager uniform state: name -> value
    sinkWrites,         \* uniform names written by the last operation, in order
    m_firstMouse,       \* gFirstMouse / ViewManager::m_firstMouse
    m_lastX,            \* gLastX / ViewManager::m_lastX
    m_lastY,            \* gLastY / ViewManager::m_lastY
    camera,             \* the Camera object (g_pCamera / m_camera)
    m_isOrtho,          \* bOrthographicProjection / ViewManager::m_isOrtho
    gDeltaTime,         \* gDeltaTime / m_deltaTime
    gLastFrame,         \* gLastFrame / m_lastFrame
    shouldClose,        \* the window's close flag (glfwSetWindowShouldClose)
    winSize,            \* the window's current frame size <<width, height>>
    pushedCam,          \* camera state PrepareSceneView last computed from
    nEvents,            \* input events and frames consumed so far, per kind
    lastOp,             \* the last operation, its inputs and its result
    m_pShaderManager,   \* SceneManager::m_pShaderManager is non-null
    m_textureIDs,       \* m_textureIDs[0 .. m_loadedTextures-1] : {ID, tag}
    imageBuffers,       \* stb_image pixel buffers allocated and not yet freed
    m_loadedMeshes,     \* meshes of m_basicMeshes that have been loaded
    glBound,            \* texture bound to GL_TEXTURE_2D (0: none)
    drawLog,            \* the draws of the last RenderScene, in order
    dbOpen,             \* g_Db && g_Db->isOpen()
    telemetryAccum,     \* main's static telemetryAccum, in milliseconds
    telemetry,          \* the rows of table telemetry, in insertion order
    db_tables,          \* the tables that exist in the database file
    db_profiles,        \* the rows of table profiles
    db_errors           \* the rows of table errors, in insertion order

vars == << m_textureMap, glTextures, m_sceneTex, sceneDecoded,
           m_objectMaterials, sink, sinkWrites,
           m_firstMouse, m_lastX, m_lastY, camera, m_isOrtho,
           gDeltaTime, gLastFrame, shouldClose, winSize, pushedCam,
           nEvents, lastOp,
           m_pShaderManager, m_textureIDs, imageBuffers, m_loadedMeshes,
           glBound, drawLog, dbOpen, telemetryAccum, telemetry,
           db_tables, db_profiles, db_errors >>

sceneVars == << m_pShaderManager, m_textureIDs, imageBuffers, m_loadedMeshes,
                glBound, drawLog >>
dbVars    == << db_tables, db_profiles, db_errors >>
mainVars  == << dbOpen, telemetryAccum, telemetry, dbVars >>

texVars  == << m_textureMap, glTextures, m_sceneTex, sceneDecoded >>
matVars  == << m_objectMaterials, sceneVars, mainVars >>
viewVars == << m_firstMouse, m_lastX, m_lastY, camera, m_isOrtho,
               gDeltaTime, gLastFrame, shouldClose, winSize, pushedCam >>

(***************************************************************************)
(* Bounds of the model.                                                    *)
(***************************************************************************)
MaxHandles    == 6
MaxMaterials  == 2
MaxMouse      == 3
MaxScroll     == 3
MaxFrames     == 2
MaxMoves      == 2
MaxViewMouse  == 1
MaxViewScroll == 1

Handles == 1..MaxHandles
Tags    == {"wood", "metal"}

Max(a, b) == IF a >= b THEN a ELSE b
Min(a, b) == IF a <= b THEN a ELSE b

(***************************************************************************)
(* The image decoder (stb_image).  A file either fails to decode           *)
(* (channel count 0 here) or decodes to 1..4 channels.                     *)
(***************************************************************************)
Files == {"missing.png", "grey.png", "greyalpha.png", "rgb.jpg", "rgba.png"}

stbi_load(file) ==
    CASE file = "missing.png"   -> 0
      [] file = "grey.png"      -> 1
      [] file = "greyalpha.png" -> 2
      [] file = "rgb.jpg"       -> 3
      [] file = "rgba.png"      -> 4

DecodeOutcomes == 0..4

NoImage == [channels |-> 0, format |-> "none"]

(***************************************************************************)
(* glGenTextures: any name that is not in use.                             *)
(***************************************************************************)
FreeHandles(gl) == Handles \ DOMAIN gl

glDeleteTextures(gl, h) == [k \in (DOMAIN gl) \ {h} |-> gl[k]]

(***************************************************************************)
(* SceneManager::loadTextureFromFile.  h is the name glGenTextures hands   *)
(* out if the function gets that far.  The result is the return value,     *)
(* outTex and the GL context.                                              *)
(***************************************************************************)
loadTextureFromFile(gl, file, h) ==
    LET channels == stbi_load(file) IN
    IF channels = 0
      THEN [ok |-> FALSE, tex |-> 0, gl |-> gl]
    ELSE IF channels \notin {1, 3, 4}
      THEN [ok |-> FALSE, tex |-> 0, gl |-> gl]
    ELSE LET format == CASE channels = 1 -> "GL_RED"
                         [] channels = 3 -> "GL_RGB"
                         [] channels = 4 -> "GL_RGBA"
         IN [ok  |-> TRUE,
             tex |-> h,
             gl  |-> [k \in (DOMAIN gl) \cup {h} |->
                        IF k = h THEN [channels |-> channels, format |-> format]
                                 ELSE gl[k]]]

(***************************************************************************)
(* SceneManager::CreateGLTexture(tag, filePath, flipVertically)            *)
(***************************************************************************)
CreateGLTexture_NoDelete(tag, file, flip, h) ==
    LET r == loadTextureFromFile(glTextures, file, h) IN
    /\ h \in FreeHandles(glTextures)
    /\ IF ~r.ok
         THEN /\ UNCHANGED << m_textureMap, glTextures >>
              /\ lastOp' = [op |-> "CreateGLTexture", tag |-> tag, file |-> file,
                            flip |-> flip, ret |-> FALSE, replaced |-> 0]
         ELSE /\ glTextures' = r.gl
              /\ m_textureMap' = [t \in (DOMAIN m_textureMap) \cup {tag} |->
                                    IF t = tag THEN r.tex ELSE m_textureMap[t]]
              /\ lastOp' = [op |-> "CreateGLTexture", tag |-> tag, file |-> file,
                            flip |-> flip, ret |-> TRUE,
                            replaced |-> IF tag \in DOMAIN m_textureMap
                                           THEN m_textureMap[tag] ELSE 0]
    /\ sinkWrites' = << >>
    /\ UNCHANGED << m_sceneTex, sceneDecoded, sink, nEvents >>
    /\ UNCHANGED matVars
    /\ UNCHANGED viewVars

CreateGLTexture(tag, file, flip, h) ==
    LET r == loadTextureFromFile(glTextures, file, h) IN
    /\ h \in FreeHandles(glTextures)
    /\ IF ~r.ok
         THEN /\ UNCHANGED << m_textureMap, glTextures >>
              /\ lastOp' = [op |-> "CreateGLTexture", tag |-> tag, file |-> file,
                            flip |-> flip, ret |-> FALSE, replaced |-> 0]
         ELSE /\ glTextures' =
                    IF tag \in DOMAIN m_textureMap /\ m_textureMap[tag] # 0
                      THEN glDeleteTextures(r.gl, m_textureMap[tag])
                      ELSE r.gl
              /\ m_textureMap' = [t \in (DOMAIN m_textureMap) \cup {tag} |->
                                    IF t = tag THEN r.tex ELSE m_textureMap[t]]
              /\ lastOp' = [op |-> "CreateGLTexture", tag |-> tag, file |-> file,
                            flip |-> flip, ret |-> TRUE,
                            replaced |-> IF tag \in DOMAIN m_textureMap
                                           THEN m_textureMap[tag] ELSE 0]
    /\ sinkWrites' = << >>
    /\ UNCHANGED << m_sceneTex, sceneDecoded, sink, nEvents >>
    /\ UNCHANGED matVars
    /\ UNCHANGED viewVars

(***************************************************************************)
(* SceneManager::DestroyGLTextures                                         *)
(***************************************************************************)
DestroyGLTextures ==
    /\ glTextures' = [k \in (DOMAIN glTextures) \
                              {m_textureMap[t] : t \in DOMAIN m_textureMap}
                        |-> glTextures[k]]
    /\ m_textureMap' = << >>
    /\ lastOp' = [op |-> "DestroyGLTextures"]
    /\ sinkWrites' = << >>
    /\ UNCHANGED << m_sceneTex, sceneDecoded, sink, nEvents >>
    /\ UNCHANGED matVars
    /\ UNCHANGED viewVars

(***************************************************************************)
(* SceneManager::LoadTexture(filepath).  channels is what stb_image        *)
(* decodes the file to (0: the file does not decode), h the name           *)
(* glGenTextures hands out.  The result is the returned id and the GL      *)
(* context.                                                                *)
(***************************************************************************)
LoadTexture(gl, channels, h) ==
    LET gen == [k \in (DOMAIN gl) \cup {h} |-> IF k = h THEN NoImage ELSE gl[k]] IN
    IF channels # 0
      THEN [id |-> h,
            gl |-> [gen EXCEPT ![h] =
                      [channels |-> channels,
                       format   |-> IF channels = 3 THEN "GL_RGB" ELSE "GL_RGBA"]]]
      ELSE [id |-> 0, gl |-> gen]

(***************************************************************************)
(* SceneManager::LoadSceneTextures: three LoadTexture calls.  What the     *)
(* three texture files decode to is the environment's choice.              *)
(***************************************************************************)
SceneSlots == {"wood", "mouseBody", "mouseButtons"}

NotLoaded == [s \in SceneSlots |-> -1]

LoadSceneTextures ==
    /\ sceneDecoded = NotLoaded
    /\ \E c1, c2, c3 \in DecodeOutcomes :
       \E h1 \in FreeHandles(glTextures) :
         LET r1 == LoadTexture(glTextures, c1, h1) IN
         \E h2 \in FreeHandles(r1.gl) :
           LET r2 == LoadTexture(r1.gl, c2, h2) IN
           \E h3 \in FreeHandles(r2.gl) :
             LET r3 == LoadTexture(r2.gl, c3, h3) IN
             /\ glTextures' = r3.gl
             /\ m_sceneTex' = [wood |-> r1.id, mouseBody |-> r2.id,
                               mouseButtons |-> r3.id]
             /\ sceneDecoded' = [wood |-> c1, mouseBody |-> c2, mouseButtons |-> c3]
    /\ lastOp' = [op |-> "LoadSceneTextures"]
    /\ sinkWrites' = << >>
    /\ UNCHANGED << m_textureMap, sink, nEvents >>
    /\ UNCHANGED matVars
    /\ UNCHANGED viewVars

(***************************************************************************)
(* The uniform sink (ShaderManager).  set*Value(name, value) stores the    *)
(* value under the name; the sink keeps it until it is written again.      *)
(***************************************************************************)
LightNames == {"bUseLighting",
               "directionalLight.bActive", "directionalLight.direction",
               "directionalLight.ambient", "directionalLight.diffuse",
               "directionalLight.specular",
               "pointLights[0].bActive", "pointLights[0].position",
               "pointLights[0].ambient", "pointLights[0].diffuse",
               "pointLights[0].specular",
               "pointLights[1].bActive", "pointLights[2].bActive",
               "pointLights[3].bActive", "pointLights[4].bActive",
               "spotLight.bActive"}

UniformNames == {"view", "projection", "viewPosition",
                 "material.diffuseColor", "material.specularColor",
                 "material.shininess",
                 "model", "objectColor", "objectTexture", "bUseTexture"}
                \cup LightNames

Unset == << >>            \* a uniform never written; a written one holds <<value>>

setValues(s, writes) ==
    [n \in UniformNames |->
        IF \E i \in 1..Len(writes) : writes[i][1] = n
          THEN LET last == CHOOSE i \in 1..Len(writes) :
                             /\ writes[i][1] = n
                             /\ \A j \in (i+1)..Len(writes) : writes[j][1] # n
               IN << writes[last][2] >>
          ELSE s[n]]

NamesOf(writes) == [i \in 1..Len(writes) |-> writes[i][1]]

(***************************************************************************)
(* 4x4 matrices (glm::mat4) as rows of fixed-point entries, 1.0 = ONE.     *)
(* Angles of SetTransformations are whole degrees; cos and sin are exact   *)
(* for the multiples of 90 and rounded to thousandths for -15.             *)
(***************************************************************************)
ONE == 1000

cos(deg) == CASE deg = 0   -> ONE
              [] deg = 90  -> 0
              [] deg = -90 -> 0
              [] deg = 180 -> -ONE
              [] deg = -15 -> 966

sin(deg) == CASE deg = 0   -> 0
              [] deg = 90  -> ONE
              [] deg = -90 -> -ONE
              [] deg = 180 -> 0
              [] deg = -15 -> -259

MatEntry(A, B, i, j) ==
    (A[i][1] * B[1][j] + A[i][2] * B[2][j]
      + A[i][3] * B[3][j] + A[i][4] * B[4][j]) \div ONE

MatRow(A, B, i) ==
    << MatEntry(A, B, i, 1), MatEntry(A, B, i, 2),
       MatEntry(A, B, i, 3), MatEntry(A, B, i, 4) >>

MatMul(A, B) ==
    << MatRow(A, B, 1), MatRow(A, B, 2), MatRow(A, B, 3), MatRow(A, B, 4) >>

scale(v) == << <<v[1], 0, 0, 0>>, <<0, v[2], 0, 0>>,
               <<0, 0, v[3], 0>>, <<0, 0, 0, ONE>> >>

translate(v) == << <<ONE, 0, 0, v[1]>>, <<0, ONE, 0, v[2]>>,
                   <<0, 0, ONE, v[3]>>, <<0, 0, 0, ONE>> >>

rotate(deg, axis) ==
    LET c == cos(deg)
        s == sin(deg)
    IN CASE axis = "x" -> << <<ONE, 0, 0, 0>>, <<0, c, -s, 0>>,
                             <<0, s, c, 0>>, <<0, 0, 0, ONE>> >>
         [] axis = "y" -> << <<c, 0, s, 0>>, <<0, ONE, 0, 0>>,
                             <<-s, 0, c, 0>>, <<0, 0, 0, ONE>> >>
         [] axis = "z" -> << <<c, -s, 0, 0>>, <<s, c, 0, 0>>,
                             <<0, 0, ONE, 0>>, <<0, 0, 0, ONE>> >>

(***************************************************************************)
(* SceneManager::SetTransformations.  modelView is the matrix the method   *)
(* computes: translation * rotationZ * rotationY * rotationX * scale,      *)
(* multiplied left to right.                                               *)
(***************************************************************************)
modelView_ScaleLast(scaleXYZ, XrotationDegrees, YrotationDegrees, ZrotationDegrees, positionXYZ) ==
    MatMul(MatMul(MatMul(MatMul(scale(scaleXYZ),
                                rotate(XrotationDegrees, "x")),
                         rotate(YrotationDegrees, "y")),
                  rotate(ZrotationDegrees, "z")),
           translate(positionXYZ))

modelView(scaleXYZ, XrotationDegrees, YrotationDegrees, ZrotationDegrees, positionXYZ) ==
    MatMul(MatMul(MatMul(MatMul(translate(positionXYZ),
                                rotate(ZrotationDegrees, "z")),
                         rotate(YrotationDegrees, "y")),
                  rotate(XrotationDegrees, "x")),
           scale(scaleXYZ))

SetTransformationsWrites(shader, scaleXYZ, XrotationDegrees, YrotationDegrees, ZrotationDegrees, positionXYZ) ==
    IF shader
      THEN << <<"model", modelView(scaleXYZ, XrotationDegrees, YrotationDegrees,
                                   ZrotationDegrees, positionXYZ)>> >>
      ELSE << >>

SetTransformations(scaleXYZ, XrotationDegrees, YrotationDegrees, ZrotationDegrees, positionXYZ) ==
    LET writes == SetTransformationsWrites(m_pShaderManager, scaleXYZ,
                      XrotationDegrees, YrotationDegrees, ZrotationDegrees,
                      positionXYZ)
    IN /\ sink' = setValues(sink, writes)
       /\ sinkWrites' = NamesOf(writes)
       /\ lastOp' = [op |-> "SetTransformations", scaleXYZ |-> scaleXYZ,
                     X |-> XrotationDegrees, Y |-> YrotationDegrees,
                     Z |-> ZrotationDegrees, positionXYZ |-> positionXYZ]
       /\ UNCHANGED << nEvents >>
       /\ UNCHANGED texVars
       /\ UNCHANGED matVars
       /\ UNCHANGED viewVars

(***************************************************************************)
(* ShaderManager setters taking a flag: setBoolValue(name, b) and          *)
(* setIntValue(name, b) both upload the flag as the integer 0 or 1.        *)
(***************************************************************************)
FlagValue(b) == IF b THEN 1 ELSE 0

(***************************************************************************)
(* SceneManager::SetShaderColor                                            *)
(***************************************************************************)
SetShaderColorWrites(shader, currentColor) ==
    IF shader
      THEN << <<"bUseTexture", FlagValue(FALSE)>>,
              <<"objectColor", currentColor>> >>
      ELSE << >>

(***************************************************************************)
(* SceneManager::CreateGLTexture(const char* filename, std::string tag),   *)
(* the overload that registers into m_textureIDs.  h is the name           *)
(* glGenTextures hands out once the image has decoded.                     *)
(***************************************************************************)
CreateGLTexture_cstr(filename, tag, h) ==
    LET colorChannels == stbi_load(filename)
        gen == [k \in (DOMAIN glTextures) \cup {h} |->
                  IF k = h THEN NoImage ELSE glTextures[k]]
    IN /\ h \in FreeHandles(glTextures)
       /\ IF colorChannels = 0
            THEN /\ UNCHANGED << glTextures, m_textureIDs, imageBuffers, glBound >>
                 /\ lastOp' = [op |-> "CreateGLTexture_cstr", tag |-> tag,
                               file |-> filename, ret |-> FALSE]
          ELSE IF colorChannels \in {3, 4}
            THEN /\ glTextures' = [gen EXCEPT ![h] =
                        [channels |-> colorChannels,
                         format   |-> IF colorChannels = 3 THEN "GL_RGB"
                                                           ELSE "GL_RGBA"]]
                 /\ m_textureIDs' = Append(m_textureIDs, [ID |-> h, tag |-> tag])
                 /\ glBound' = 0
                 /\ UNCHANGED imageBuffers
                 /\ lastOp' = [op |-> "CreateGLTexture_cstr", tag |-> tag,
                               file |-> filename, ret |-> TRUE]
            ELSE /\ glTextures' = gen
                 /\ glBound' = h
                 /\ imageBuffers' = imageBuffers + 1
                 /\ UNCHANGED m_textureIDs
                 /\ lastOp' = [op |-> "CreateGLTexture_cstr", tag |-> tag,
                               file |-> filename, ret |-> FALSE]
       /\ sinkWrites' = << >>
       /\ UNCHANGED << m_textureMap, m_sceneTex, sceneDecoded, sink, nEvents,
                       m_objectMaterials, m_pShaderManager, m_loadedMeshes,
                       drawLog >>
       /\ UNCHANGED mainVars
       /\ UNCHANGED viewVars

(***************************************************************************)
(* Texture lookups: FindTextureID, TextureExists (m_textureMap) and        *)
(* FindTextureSlot (m_textureIDs, slots counted from 0).                   *)
(***************************************************************************)
FindTextureID(map, tag) == IF tag \in DOMAIN map THEN map[tag] ELSE 0

TextureExists(map, tag) == tag \in DOMAIN map

FindTextureSlot(ids, tag) ==
    IF \E i \in 1..Len(ids) : ids[i].tag = tag
      THEN (CHOOSE i \in 1..Len(ids) :
              /\ ids[i].tag = tag
              /\ \A j \in 1..(i - 1) : ids[j].tag # tag) - 1
      ELSE -1

(***************************************************************************)
(* SceneManager::SetShaderTexture                                          *)
(***************************************************************************)
SetShaderTexture(textureTag) ==
    LET textureID == FindTextureSlot(m_textureIDs, textureTag)
        w == IF m_pShaderManager
               THEN << <<"bUseTexture", FlagValue(TRUE)>>,
                       <<"objectTexture", textureID>> >>
               ELSE << >>
    IN /\ sink' = setValues(sink, w)
       /\ sinkWrites' = NamesOf(w)
       /\ lastOp' = [op |-> "SetShaderTexture", tag |-> textureTag,
                     slot |-> textureID]
       /\ UNCHANGED << nEvents >>
       /\ UNCHANGED texVars
       /\ UNCHANGED matVars
       /\ UNCHANGED viewVars

(***************************************************************************)
(* SceneManager::RenderScene.  The body is the sequence of its statements, *)
(* loops unrolled; a mesh draw records what the GL state and the uniform   *)
(* sink hold when it is issued.                                            *)
(***************************************************************************)
StepTransform(scaleXYZ, X, Y, Z, positionXYZ) ==
    [op |-> "SetTransformations", scaleXYZ |-> scaleXYZ, X |-> X, Y |-> Y,
     Z |-> Z, positionXYZ |-> positionXYZ,
     writes |-> SetTransformationsWrites(TRUE, scaleXYZ, X, Y, Z, positionXYZ)]

StepUseTexture(b) == [op |-> "setBoolValue", name |-> "bUseTexture", value |-> b]

StepBind(slot) == [op |-> "glBindTexture", slot |-> slot]

StepColor(r, g, b, a) == [op |-> "SetShaderColor", color |-> <<r, g, b, a>>]

StepDraw(mesh) == [op |-> "Draw", mesh |-> mesh]

DeskPlane ==
    << StepTransform(<<20000, 1000, 10000>>, 0, 0, 0, <<0, 0, 0>>),
       StepUseTexture(TRUE), StepBind("wood"), StepDraw("Plane") >>

MouseBody ==
    << StepTransform(<<900, 500, 1300>>, 0, 0, -15, <<-2000, 500, 0>>),
       StepUseTexture(TRUE), StepBind("mouseBody"), StepDraw("Sphere") >>

MouseButton(i) ==
    << StepTransform(<<200, 50, 200>>, 90, 0, 0, <<-2000 + 100 * i, 650, 200>>),
       StepDraw("TaperedCylinder") >>

MouseButtons_OneTransform ==
    << StepUseTexture(TRUE), StepBind("mouseButtons"),
       StepTransform(<<200, 50, 200>>, 90, 0, 0, <<-2000, 650, 200>>),
       StepDraw("TaperedCylinder"), StepDraw("TaperedCylinder") >>

MouseButtons ==
    << StepUseTexture(TRUE), StepBind("mouseButtons") >>
      \o MouseButton(0) \o MouseButton(1)

Keyboard_NoFlag ==
    << StepTransform(<<3000, 300, 1500>>, 0, 0, 0, <<1000, 150, 0>>),
       StepDraw("Box") >>

Keyboard ==
    << StepTransform(<<3000, 300, 1500>>, 0, 0, 0, <<1000, 150, 0>>),
       StepUseTexture(FALSE), StepColor(900, 900, 900, 1000), StepDraw("Box") >>

WristSphere(i) ==
    << StepTransform(<<600, 600, 600>>, 0, 0, 0, <<-500 + i * 600, 350, -600>>),
       StepDraw("Sphere") >>

WristRest ==
    << StepUseTexture(FALSE), StepColor(1000, 1000, 1000, 1000) >>
      \o WristSphere(0) \o WristSphere(1) \o WristSphere(2)

GlassesRing(i) ==
    << StepTransform(<<300, 300, 300>>, 90, 0, 0, <<-500 + i * 800, 500, 1000>>),
       StepDraw("Torus") >>

Glasses ==
    << StepUseTexture(FALSE), StepColor(100, 100, 100, 1000) >>
      \o GlassesRing(0) \o GlassesRing(1)

GlassesBridge ==
    << StepTransform(<<800, 50, 50>>, 0, 0, 0, <<-100, 500, 1000>>),
       StepDraw("Box") >>

RenderSceneSteps ==
    DeskPlane \o MouseBody \o MouseButtons \o Keyboard \o WristRest
      \o Glasses \o GlassesBridge

NoTransform == [op |-> "none"]

SceneUniforms == {"model", "bUseTexture", "objectColor"}

RECURSIVE ApplyWrites(_, _, _)
ApplyWrites(u, writes, i) ==
    IF i > Len(writes) THEN u
    ELSE ApplyWrites([u EXCEPT ![writes[i][1]] = << writes[i][2] >>], writes, i + 1)

Exec(step, st) ==
    CASE step.op = "SetTransformations" ->
           LET w == step.writes
           IN [st EXCEPT !.u = ApplyWrites(@, w, 1), !.names = @ \o NamesOf(w),
                         !.transforms = @ + 1, !.args = step]
      [] step.op = "setBoolValue" ->
           LET w == << <<step.name, FlagValue(step.value)>> >>
           IN [st EXCEPT !.u = ApplyWrites(@, w, 1), !.names = @ \o NamesOf(w)]
      [] step.op = "SetShaderColor" ->
           LET w == SetShaderColorWrites(TRUE, step.color)
           IN [st EXCEPT !.u = ApplyWrites(@, w, 1), !.names = @ \o NamesOf(w)]
      [] step.op = "glBindTexture" ->
           [st EXCEPT !.bound = m_sceneTex[step.slot]]
      [] step.op = "Draw" ->
           [st EXCEPT !.draws = Append(@,
                         [mesh         |-> step.mesh,
                          loaded       |-> step.mesh \in m_loadedMeshes,
                          model        |-> st.u["model"],
                          bUseTexture  |-> st.u["bUseTexture"],
                          texture      |-> st.bound,
                          view         |-> sink["view"],
                          projection   |-> sink["projection"],
                          viewPosition |-> sink["viewPosition"],
                          transforms   |-> st.transforms,
                          args         |-> st.args]),
                      !.transforms = 0]

RECURSIVE RunSteps(_, _, _)
RunSteps(steps, i, st) ==
    IF i > Len(steps) THEN st
    ELSE RunSteps(steps, i + 1, Exec(steps[i], st))

RenderScene ==
    /\ m_pShaderManager
    /\ LET st == RunSteps(RenderSceneSteps, 1,
                          [u |-> [model       |-> sink["model"],
                                  bUseTexture |-> sink["bUseTexture"],
                                  objectColor |-> sink["objectColor"]],
                           names |-> << >>, bound |-> glBound,
                           draws |-> << >>, transforms |-> 0,
                           args |-> NoTransform])
       IN /\ sink' = [n \in UniformNames |->
                        IF n \in SceneUniforms THEN st.u[n] ELSE sink[n]]
          /\ sinkWrites' = st.names
          /\ glBound' = st.bound
          /\ drawLog' = st.draws
    /\ lastOp' = [op |-> "RenderScene"]
    /\ UNCHANGED << m_objectMaterials, m_pShaderManager, m_textureIDs,
                    imageBuffers, m_loadedMeshes, nEvents >>
    /\ UNCHANGED mainVars
    /\ UNCHANGED texVars
    /\ UNCHANGED viewVars

(***************************************************************************)
(* Materials.  OBJECT_MATERIAL is {tag, diffuseColor, specularColor,       *)
(* shininess}; colours and shininess are in thousandths.                   *)
(***************************************************************************)
MaterialTags == {"glass", "wood"}
Colors       == {<<100, 100, 100>>, <<600, 600, 600>>}
Shininesses  == {32000, 8000}

MaterialProps == [diffuseColor : Colors, specularColor : Colors,
                  shininess : Shininesses]
Materials == [tag : MaterialTags, diffuseColor : Colors, specularColor : Colors,
              shininess : Shininesses]

PropsOf(m) == [diffuseColor |-> m.diffuseColor, specularColor |-> m.specularColor,
               shininess |-> m.shininess]

(***************************************************************************)
(* SceneManager::FindMaterial(tag, material).  material is the caller's    *)
(* object, written only when the tag is found.  The result is the return   *)
(* value and the caller's object after the call.                           *)
(***************************************************************************)
RECURSIVE FindIndex(_, _, _)
FindIndex(list, tag, index) ==
    IF index > Len(list) THEN 0
    ELSE IF list[index].tag = tag THEN index
    ELSE FindIndex(list, tag, index + 1)

FindMaterial(list, tag, material) ==
    IF Len(list) = 0
      THEN [ret |-> FALSE, material |-> material]
      ELSE LET index == FindIndex(list, tag, 1) IN
           [ret      |-> TRUE,
            material |-> IF index # 0 THEN PropsOf(list[index]) ELSE material]

(***************************************************************************)
(* SceneManager::SetShaderMaterial(materialTag).  The local OBJECT_MATERIAL *)
(* is not initialised: its content before FindMaterial is arbitrary.       *)
(***************************************************************************)
SetShaderMaterial(materialTag) ==
    /\ IF Len(m_objectMaterials) > 0
         THEN \E uninit \in MaterialProps :
                LET r == FindMaterial(m_objectMaterials, materialTag, uninit)
                    w == IF r.ret
                           THEN << <<"material.diffuseColor", r.material.diffuseColor>>,
                                   <<"material.specularColor", r.material.specularColor>>,
                                   <<"material.shininess", r.material.shininess>> >>
                           ELSE << >>
                IN /\ sink' = setValues(sink, w)
                   /\ sinkWrites' = NamesOf(w)
                   /\ lastOp' = [op |-> "SetShaderMaterial", tag |-> materialTag,
                                 found |-> r.ret]
         ELSE /\ UNCHANGED sink
              /\ sinkWrites' = << >>
              /\ lastOp' = [op |-> "SetShaderMaterial", tag |-> materialTag,
                            found |-> FALSE]
    /\ UNCHANGED << nEvents >>
    /\ UNCHANGED texVars
    /\ UNCHANGED matVars
    /\ UNCHANGED viewVars

(***************************************************************************)
(* SceneManager::DefineObjectMaterials                                     *)
(***************************************************************************)
DefinedMaterial == [diffuseColor |-> <<1000, 1000, 1000>>,
                    specularColor |-> <<600, 600, 600>>,
                    shininess |-> 32000]

DefineObjectMaterials ==
    LET w == << <<"material.diffuseColor", DefinedMaterial.diffuseColor>>,
                <<"material.specularColor", DefinedMaterial.specularColor>>,
                <<"material.shininess", DefinedMaterial.shininess>> >>
    IN /\ sink' = setValues(sink, w)
       /\ sinkWrites' = NamesOf(w)
       /\ lastOp' = [op |-> "DefineObjectMaterials"]
       /\ UNCHANGED << nEvents >>
       /\ UNCHANGED texVars
       /\ UNCHANGED matVars
       /\ UNCHANGED viewVars

(***************************************************************************)
(* ViewConfig defaults and the window.                                     *)
(***************************************************************************)
WINDOW_WIDTH  == 1000
WINDOW_HEIGHT == 800

cfg == [windowWidth   |-> WINDOW_WIDTH,
        windowHeight  |-> WINDOW_HEIGHT,
        defaultZoom   |-> 80000,
        movementSpeed |-> 20000,
        camPos        |-> <<0, 5000, 12000>>,
        camFront      |-> <<0, -500, -2000>>,
        camUp         |-> <<0, 1000, 0>>]

WindowSizes == {<<1000, 800>>, <<800, 800>>}

(***************************************************************************)
(* The Camera class (camera.h).  Position is the start position plus the   *)
(* displacements applied so far, each <<direction, Front, velocity>>.      *)
(* Front is either the configured vector or the direction of (Yaw, Pitch). *)
(***************************************************************************)
MouseSensitivity == 1
PitchLimit       == 890
SpeedFloor       == 100
ScrollGain       == 1000
DefaultYaw       == -900
DefaultPitch     == 0

Vector(v) == [kind |-> "vector", args |-> v]

FrontOf(yaw, pitch) == [kind |-> "direction", args |-> <<yaw, pitch>>]

ProcessMouseMovement(cam, xOffset, yOffset) ==
    LET yaw   == cam.Yaw + xOffset * MouseSensitivity
        pitch == Max(-PitchLimit, Min(PitchLimit, cam.Pitch + yOffset * MouseSensitivity))
    IN [cam EXCEPT !.Yaw = yaw, !.Pitch = pitch, !.Front = FrontOf(yaw, pitch)]

ProcessMouseScroll(cam, yOffset) ==
    [cam EXCEPT !.MovementSpeed = Max(SpeedFloor, cam.MovementSpeed + yOffset * ScrollGain)]

ProcessKeyboard(cam, direction, deltaTime) ==
    LET velocity == (cam.MovementSpeed * deltaTime) \div 1000 IN
    [cam EXCEPT !.Position.moves = Append(@, <<direction, cam.Front, velocity>>)]

GetViewMatrix(cam) ==
    [eye |-> cam.Position, center |-> <<cam.Position, "+", cam.Front>>, up |-> cam.Up]

(* The camera as the ViewManager constructor leaves it. *)
InitCamera == [Position      |-> [base |-> cfg.camPos, moves |-> << >>],
               Front         |-> Vector(cfg.camFront),
               Up            |-> cfg.camUp,
               Zoom          |-> cfg.defaultZoom,
               MovementSpeed |-> cfg.movementSpeed,
               Yaw           |-> DefaultYaw,
               Pitch         |-> DefaultPitch]

(***************************************************************************)
(* ViewManager::Mouse_Position_Callback(window, xMousePos, yMousePos)      *)
(***************************************************************************)
MouseXs == {100, 500}
MouseYs == {0, 1000}

Mouse_Position_Callback_NoSeed(xMousePos, yMousePos) ==
    LET xOffset == xMousePos - m_lastX
        yOffset == m_lastY - yMousePos
    IN /\ m_firstMouse' = FALSE
       /\ m_lastX' = xMousePos
       /\ m_lastY' = yMousePos
       /\ camera' = ProcessMouseMovement(camera, xOffset, yOffset)
       /\ lastOp' = [op |-> "Mouse_Position_Callback", x |-> xMousePos,
                     y |-> yMousePos, xOffset |-> xOffset, yOffset |-> yOffset]
       /\ nEvents' = [nEvents EXCEPT !.mouse = @ + 1]
       /\ sinkWrites' = << >>
       /\ UNCHANGED << sink, m_isOrtho, gDeltaTime, gLastFrame, shouldClose,
                       winSize, pushedCam >>
       /\ UNCHANGED texVars
       /\ UNCHANGED matVars

Mouse_Position_Callback_NoInvert(xMousePos, yMousePos) ==
    LET lastX   == IF m_firstMouse THEN xMousePos ELSE m_lastX
        lastY   == IF m_firstMouse THEN yMousePos ELSE m_lastY
        xOffset == xMousePos - lastX
        yOffset == yMousePos - lastY
    IN /\ m_firstMouse' = FALSE
       /\ m_lastX' = xMousePos
       /\ m_lastY' = yMousePos
       /\ camera' = ProcessMouseMovement(camera, xOffset, yOffset)
       /\ lastOp' = [op |-> "Mouse_Position_Callback", x |-> xMousePos,
                     y |-> yMousePos, xOffset |-> xOffset, yOffset |-> yOffset]
       /\ nEvents' = [nEvents EXCEPT !.mouse = @ + 1]
       /\ sinkWrites' = << >>
       /\ UNCHANGED << sink, m_isOrtho, gDeltaTime, gLastFrame, shouldClose,
                       winSize, pushedCam >>
       /\ UNCHANGED texVars
       /\ UNCHANGED matVars

Mouse_Position_Callback(xMousePos, yMousePos) ==
    LET lastX   == IF m_firstMouse THEN xMousePos ELSE m_lastX
        lastY   == IF m_firstMouse THEN yMousePos ELSE m_lastY
        xOffset == xMousePos - lastX
        yOffset == lastY - yMousePos
    IN /\ m_firstMouse' = FALSE
       /\ m_lastX' = xMousePos
       /\ m_lastY' = yMousePos
       /\ camera' = ProcessMouseMovement(camera, xOffset, yOffset)
       /\ lastOp' = [op |-> "Mouse_Position_Callback", x |-> xMousePos,
                     y |-> yMousePos, xOffset |-> xOffset, yOffset |-> yOffset]
       /\ nEvents' = [nEvents EXCEPT !.mouse = @ + 1]
       /\ sinkWrites' = << >>
       /\ UNCHANGED << sink, m_isOrtho, gDeltaTime, gLastFrame, shouldClose,
                       winSize, pushedCam >>
       /\ UNCHANGED texVars
       /\ UNCHANGED matVars

(***************************************************************************)
(* ViewManager::Scroll_Callback(window, xoffset, yoffset)                  *)
(***************************************************************************)
ScrollOffsets == {-15, -1, 1}

Scroll_Callback_Zoom(yoffset) ==
    /\ camera' = [camera EXCEPT !.Zoom = Max(1000, @ - yoffset * 1000)]
    /\ lastOp' = [op |-> "Scroll_Callback", yoffset |-> yoffset]
    /\ nEvents' = [nEvents EXCEPT !.scroll = @ + 1]
    /\ sinkWrites' = << >>
    /\ UNCHANGED << sink, m_firstMouse, m_lastX, m_lastY, m_isOrtho, gDeltaTime,
                    gLastFrame, shouldClose, winSize, pushedCam >>
    /\ UNCHANGED texVars
    /\ UNCHANGED matVars

Scroll_Callback(yoffset) ==
    /\ camera' = ProcessMouseScroll(camera, yoffset)
    /\ lastOp' = [op |-> "Scroll_Callback", yoffset |-> yoffset]
    /\ nEvents' = [nEvents EXCEPT !.scroll = @ + 1]
    /\ sinkWrites' = << >>
    /\ UNCHANGED << sink, m_firstMouse, m_lastX, m_lastY, m_isOrtho, gDeltaTime,
                    gLastFrame, shouldClose, winSize, pushedCam >>
    /\ UNCHANGED texVars
    /\ UNCHANGED matVars

(***************************************************************************)
(* ViewManager::ProcessKeyboardEvents.  keys is the set of keys GLFW       *)
(* reports as pressed in this frame.  The result is the close flag, the    *)
(* camera and the projection mode after the call.  The camera exists from  *)
(* the constructor on, so the early return on a null camera is never       *)
(* taken.                                                                  *)
(***************************************************************************)
MoveKeys == << <<"W", "FORWARD">>, <<"S", "BACKWARD">>, <<"A", "LEFT">>,
               <<"D", "RIGHT">>, <<"Q", "UP">>, <<"E", "DOWN">> >>

KeySets == { {}, {"W"}, {"S", "A"}, {"D"}, {"Q", "E"}, {"P"}, {"O"},
             {"P", "O"}, {"ESCAPE"}, {"W", "O"} }

RECURSIVE ApplyMoveKeys(_, _, _, _)
ApplyMoveKeys(cam, keys, deltaTime, i) ==
    IF i > Len(MoveKeys) THEN cam
    ELSE ApplyMoveKeys(IF MoveKeys[i][1] \in keys
                         THEN ProcessKeyboard(cam, MoveKeys[i][2], deltaTime)
                         ELSE cam,
                       keys, deltaTime, i + 1)

NumMoves(keys) == Cardinality({i \in 1..Len(MoveKeys) : MoveKeys[i][1] \in keys})

ProcessKeyboardEvents_PWins(keys, deltaTime) ==
    [shouldClose |-> shouldClose \/ "ESCAPE" \in keys,
     camera      |-> ApplyMoveKeys(camera, keys, deltaTime, 1),
     isOrtho     |-> IF "P" \in keys THEN FALSE
                     ELSE IF "O" \in keys THEN TRUE
                     ELSE m_isOrtho]

ProcessKeyboardEvents(keys, deltaTime) ==
    [shouldClose |-> shouldClose \/ "ESCAPE" \in keys,
     camera      |-> ApplyMoveKeys(camera, keys, deltaTime, 1),
     isOrtho     |-> IF "O" \in keys THEN TRUE
                     ELSE IF "P" \in keys THEN FALSE
                     ELSE m_isOrtho]

(***************************************************************************)
(* The projection matrix PrepareSceneView computes, by its parameters.     *)
(***************************************************************************)
NearPlane == 100
FarPlane  == 100000
OrthoHeight == 10000

Aspect == (WINDOW_WIDTH * 1000) \div WINDOW_HEIGHT

ortho(left, right, bottom, top, zNear, zFar) ==
    [kind |-> "ortho", left |-> left, right |-> right, bottom |-> bottom,
     top |-> top, near |-> zNear, far |-> zFar]

perspective(fovyDegrees, aspect, zNear, zFar) ==
    [kind |-> "perspective", fovy |-> fovyDegrees, aspect |-> aspect,
     near |-> zNear, far |-> zFar]

Projection_FullHeight(isOrtho, cam) ==
    IF isOrtho
      THEN LET aspect      == Aspect
               orthoHeight == OrthoHeight
               orthoWidth  == (orthoHeight * aspect) \div 1000
           IN ortho(-orthoWidth, orthoWidth, -orthoHeight, orthoHeight,
                    NearPlane, FarPlane)
      ELSE perspective(cam.Zoom, Aspect, NearPlane, FarPlane)

Projection(isOrtho, cam) ==
    IF isOrtho
      THEN LET aspect      == Aspect
               orthoHeight == OrthoHeight
               orthoWidth  == (orthoHeight * aspect) \div 1000
           IN ortho(-(orthoWidth \div 2), orthoWidth \div 2,
                    -(orthoHeight \div 2), orthoHeight \div 2,
                    NearPlane, FarPlane)
      ELSE perspective(cam.Zoom, Aspect, NearPlane, FarPlane)

(***************************************************************************)
(* ViewManager::PrepareSceneView.  delta is the time glfwGetTime advanced  *)
(* since the previous frame (milliseconds), keys the keys held down.  The  *)
(* shader manager is the one main() constructs, never null.                *)
(***************************************************************************)
FrameDeltas == {16, 33}

PrepareSceneView_OrthoView(delta, keys) ==
    LET currentFrame == gLastFrame + delta
        deltaTime    == currentFrame - gLastFrame
        k            == ProcessKeyboardEvents(keys, deltaTime)
        view         == IF k.isOrtho THEN GetViewMatrix(InitCamera)
                                     ELSE GetViewMatrix(k.camera)
        proj         == Projection(k.isOrtho, k.camera)
        w            == << <<"view", view>>, <<"projection", proj>>,
                           <<"viewPosition", k.camera.Position>> >>
    IN /\ gDeltaTime' = deltaTime
       /\ gLastFrame' = currentFrame
       /\ shouldClose' = k.shouldClose
       /\ camera' = k.camera
       /\ m_isOrtho' = k.isOrtho
       /\ sink' = setValues(sink, w)
       /\ sinkWrites' = NamesOf(w)
       /\ pushedCam' = << k.camera >>
       /\ lastOp' = [op |-> "PrepareSceneView", keys |-> keys, delta |-> delta,
                     modeChanged |-> (k.isOrtho # m_isOrtho),
                     cameraSame  |-> (pushedCam = << k.camera >>)]
       /\ nEvents' = [nEvents EXCEPT !.frames = @ + 1]
       /\ UNCHANGED << m_firstMouse, m_lastX, m_lastY, winSize >>
       /\ UNCHANGED texVars
       /\ UNCHANGED matVars

PrepareSceneView_StaleView(delta, keys) ==
    LET currentFrame == gLastFrame + delta
        deltaTime    == currentFrame - gLastFrame
        k            == ProcessKeyboardEvents(keys, deltaTime)
        view         == GetViewMatrix(camera)
        proj         == Projection(k.isOrtho, k.camera)
        w            == << <<"view", view>>, <<"projection", proj>>,
                           <<"viewPosition", k.camera.Position>> >>
    IN /\ gDeltaTime' = deltaTime
       /\ gLastFrame' = currentFrame
       /\ shouldClose' = k.shouldClose
       /\ camera' = k.camera
       /\ m_isOrtho' = k.isOrtho
       /\ sink' = setValues(sink, w)
       /\ sinkWrites' = NamesOf(w)
       /\ pushedCam' = << k.camera >>
       /\ lastOp' = [op |-> "PrepareSceneView", keys |-> keys, delta |-> delta,
                     modeChanged |-> (k.isOrtho # m_isOrtho),
                     cameraSame  |-> (pushedCam = << k.camera >>)]
       /\ nEvents' = [nEvents EXCEPT !.frames = @ + 1]
       /\ UNCHANGED << m_firstMouse, m_lastX, m_lastY, winSize >>
       /\ UNCHANGED texVars
       /\ UNCHANGED matVars

PrepareSceneView(delta, keys) ==
    LET currentFrame == gLastFrame + delta
        deltaTime    == currentFrame - gLastFrame
        k            == ProcessKeyboardEvents(keys, deltaTime)
        view         == GetViewMatrix(k.camera)
        proj         == Projection(k.isOrtho, k.camera)
        w            == << <<"view", view>>, <<"projection", proj>>,
                           <<"viewPosition", k.camera.Position>> >>
    IN /\ gDeltaTime' = deltaTime
       /\ gLastFrame' = currentFrame
       /\ shouldClose' = k.shouldClose
       /\ camera' = k.camera
       /\ m_isOrtho' = k.isOrtho
       /\ sink' = setValues(sink, w)
       /\ sinkWrites' = NamesOf(w)
       /\ pushedCam' = << k.camera >>
       /\ lastOp' = [op |-> "PrepareSceneView", keys |-> keys, delta |-> delta,
                     modeChanged |-> (k.isOrtho # m_isOrtho),
                     cameraSame  |-> (pushedCam = << k.camera >>)]
       /\ nEvents' = [nEvents EXCEPT !.frames = @ + 1]
       /\ UNCHANGED << m_firstMouse, m_lastX, m_lastY, winSize >>
       /\ UNCHANGED texVars
       /\ UNCHANGED matVars

(***************************************************************************)
(* The user resizes the window (GLFW windows are resizable); the program   *)
(* registers no handler for it.                                            *)
(***************************************************************************)
ResizeWindow(size) ==
    /\ size # winSize
    /\ winSize' = size
    /\ lastOp' = [op |-> "ResizeWindow", size |-> size]
    /\ sinkWrites' = << >>
    /\ UNCHANGED << sink, nEvents, m_firstMouse, m_lastX, m_lastY, camera,
                    m_isOrtho, gDeltaTime, gLastFrame, shouldClose, pushedCam >>
    /\ UNCHANGED texVars
    /\ UNCHANGED matVars

(***************************************************************************)
(* Initial state: the objects as their constructors leave them.  The three *)
(* scene texture ids are not read before LoadSceneTextures assigns them.   *)
(***************************************************************************)
Init ==
    /\ m_textureMap = << >>
    /\ glTextures = << >>
    /\ m_sceneTex = [s \in SceneSlots |-> 0]
    /\ sceneDecoded = NotLoaded
    /\ m_objectMaterials = << >>
    /\ sink = [n \in UniformNames |-> Unset]
    /\ sinkWrites = << >>
    /\ m_firstMouse = TRUE
    /\ m_lastX = cfg.windowWidth \div 2
    /\ m_lastY = cfg.windowHeight \div 2
    /\ camera = InitCamera
    /\ m_isOrtho = FALSE
    /\ gDeltaTime = 0
    /\ gLastFrame = 0
    /\ shouldClose = FALSE
    /\ winSize = <<cfg.windowWidth, cfg.windowHeight>>
    /\ pushedCam = Unset
    /\ nEvents = [mouse |-> 0, scroll |-> 0, frames |-> 0]
    /\ lastOp = [op |-> "construct"]
    /\ m_pShaderManager = TRUE
    /\ m_textureIDs = << >>
    /\ imageBuffers = 0
    /\ m_loadedMeshes = {}
    /\ glBound = 0
    /\ drawLog = << >>
    /\ dbOpen = FALSE
    /\ telemetryAccum = 0
    /\ telemetry = << >>
    /\ db_tables = {}
    /\ db_profiles = {}
    /\ db_errors = << >>

(***************************************************************************)
(* The texture registry: CreateGLTexture and DestroyGLTextures in any      *)
(* order, from the constructed SceneManager.                               *)
(***************************************************************************)
NextTex ==
    \/ \E tag \in Tags, file \in Files, flip \in BOOLEAN :
         \E h \in FreeHandles(glTextures) : CreateGLTexture(tag, file, flip, h)
    \/ DestroyGLTextures

SpecTex == Init /\ [][NextTex]_vars

(***************************************************************************)
(* Scene preparation: the steps of PrepareScene and the material lookup,   *)
(* from the constructed SceneManager.                                      *)
(***************************************************************************)
NextPrepare ==
    \/ LoadSceneTextures
    \/ DefineObjectMaterials
    \/ \E tag \in MaterialTags : SetShaderMaterial(tag)

SpecPrepare == Init /\ [][NextPrepare]_vars

(***************************************************************************)
(* The material lookup on any material list of up to MaxMaterials entries. *)
(***************************************************************************)
MaterialLists == UNION {[1..n -> Materials] : n \in 0..MaxMaterials}

InitMaterials ==
    /\ m_objectMaterials \in MaterialLists
    /\ m_textureMap = << >>
    /\ glTextures = << >>
    /\ m_sceneTex = [s \in SceneSlots |-> 0]
    /\ sceneDecoded = NotLoaded
    /\ sink = [n \in UniformNames |-> Unset]
    /\ sinkWrites = << >>
    /\ m_firstMouse = TRUE
    /\ m_lastX = cfg.windowWidth \div 2
    /\ m_lastY = cfg.windowHeight \div 2
    /\ camera = InitCamera
    /\ m_isOrtho = FALSE
    /\ gDeltaTime = 0
    /\ gLastFrame = 0
    /\ shouldClose = FALSE
    /\ winSize = <<cfg.windowWidth, cfg.windowHeight>>
    /\ pushedCam = Unset
    /\ nEvents = [mouse |-> 0, scroll |-> 0, frames |-> 0]
    /\ lastOp = [op |-> "construct"]
    /\ m_pShaderManager = TRUE
    /\ m_textureIDs = << >>
    /\ imageBuffers = 0
    /\ m_loadedMeshes = {}
    /\ glBound = 0
    /\ drawLog = << >>
    /\ dbOpen = FALSE
    /\ telemetryAccum = 0
    /\ telemetry = << >>
    /\ db_tables = {}
    /\ db_profiles = {}
    /\ db_errors = << >>

NextMaterials ==
    \/ \E tag \in MaterialTags : SetShaderMaterial(tag)
    \/ DefineObjectMaterials

SpecMaterials == InitMaterials /\ [][NextMaterials]_vars

(***************************************************************************)
(* Input callbacks alone: mouse moves and scroll events since session      *)
(* start.                                                                  *)
(***************************************************************************)
NextInput ==
    \/ /\ nEvents.mouse < MaxMouse
       /\ \E x \in MouseXs, y \in MouseYs : Mouse_Position_Callback(x, y)
    \/ /\ nEvents.scroll < MaxScroll
       /\ \E yoffset \in ScrollOffsets : Scroll_Callback(yoffset)

SpecInput == Init /\ [][NextInput]_vars

(***************************************************************************)
(* The view: frames of the render loop (which runs PrepareSceneView while  *)
(* the window is not asked to close), with input callbacks and window      *)
(* resizes between frames.                                                 *)
(***************************************************************************)
NextView ==
    \/ /\ ~shouldClose
       /\ nEvents.frames < MaxFrames
       /\ \E delta \in FrameDeltas, keys \in KeySets :
            /\ Len(camera.Position.moves) + NumMoves(keys) <= MaxMoves
            /\ PrepareSceneView(delta, keys)
    \/ /\ nEvents.mouse < MaxViewMouse
       /\ \E x \in MouseXs, y \in MouseYs : Mouse_Position_Callback(x, y)
    \/ /\ nEvents.scroll < MaxViewScroll
       /\ \E yoffset \in ScrollOffsets : Scroll_Callback(yoffset)
    \/ \E size \in WindowSizes : ResizeWindow(size)

SpecView == Init /\ [][NextView]_vars

(***************************************************************************)
(* SceneManager::SetupSceneLights                                          *)
(***************************************************************************)
SetupSceneLightsWrites_NoInactive ==
    << <<"bUseLighting", FlagValue(TRUE)>>,
       <<"directionalLight.bActive", FlagValue(TRUE)>>,
       <<"directionalLight.direction", <<-300, -1000, -300>> >>,
       <<"directionalLight.ambient", <<300, 300, 300>> >>,
       <<"directionalLight.diffuse", <<600, 600, 600>> >>,
       <<"directionalLight.specular", <<1000, 1000, 1000>> >>,
       <<"pointLights[0].bActive", FlagValue(TRUE)>>,
       <<"pointLights[0].position", <<1000, 3000, 2000>> >>,
       <<"pointLights[0].ambient", <<200, 100, 100>> >>,
       <<"pointLights[0].diffuse", <<900, 300, 300>> >>,
       <<"pointLights[0].specular", <<900, 300, 300>> >> >>

SetupSceneLightsWrites ==
    << <<"bUseLighting", FlagValue(TRUE)>>,
       <<"directionalLight.bActive", FlagValue(TRUE)>>,
       <<"directionalLight.direction", <<-300, -1000, -300>> >>,
       <<"directionalLight.ambient", <<300, 300, 300>> >>,
       <<"directionalLight.diffuse", <<600, 600, 600>> >>,
       <<"directionalLight.specular", <<1000, 1000, 1000>> >>,
       <<"pointLights[0].bActive", FlagValue(TRUE)>>,
       <<"pointLights[0].position", <<1000, 3000, 2000>> >>,
       <<"pointLights[0].ambient", <<200, 100, 100>> >>,
       <<"pointLights[0].diffuse", <<900, 300, 300>> >>,
       <<"pointLights[0].specular", <<900, 300, 300>> >>,
       <<"pointLights[1].bActive", FlagValue(FALSE)>>,
       <<"pointLights[2].bActive", FlagValue(FALSE)>>,
       <<"pointLights[3].bActive", FlagValue(FALSE)>>,
       <<"pointLights[4].bActive", FlagValue(FALSE)>>,
       <<"spotLight.bActive", FlagValue(FALSE)>> >>

(***************************************************************************)
(* SceneManager::PrepareScene: LoadSceneTextures, DefineObjectMaterials,   *)
(* SetupSceneLights, then the six mesh loads.  c1..c3 are what the three   *)
(* texture files decode to, h1..h3 the names glGenTextures hands out.      *)
(***************************************************************************)
PreparedMeshes == {"Box", "Sphere", "Plane", "Cylinder", "Cone", "Torus"}

PrepareScene(c1, c2, c3, h1, h2, h3) ==
    LET r1 == LoadTexture(glTextures, c1, h1)
        r2 == LoadTexture(r1.gl, c2, h2)
        r3 == LoadTexture(r2.gl, c3, h3)
        w  == << <<"material.diffuseColor", DefinedMaterial.diffuseColor>>,
                 <<"material.specularColor", DefinedMaterial.specularColor>>,
                 <<"material.shininess", DefinedMaterial.shininess>> >>
                \o SetupSceneLightsWrites
    IN /\ h1 \in FreeHandles(glTextures)
       /\ h2 \in FreeHandles(r1.gl)
       /\ h3 \in FreeHandles(r2.gl)
       /\ glTextures' = r3.gl
       /\ m_sceneTex' = [wood |-> r1.id, mouseBody |-> r2.id,
                         mouseButtons |-> r3.id]
       /\ sceneDecoded' = [wood |-> c1, mouseBody |-> c2, mouseButtons |-> c3]
       /\ sink' = setValues(sink, w)
       /\ sinkWrites' = NamesOf(w)
       /\ m_loadedMeshes' = m_loadedMeshes \cup PreparedMeshes
       /\ lastOp' = [op |-> "PrepareScene"]
       /\ UNCHANGED << m_textureMap, nEvents, m_objectMaterials,
                       m_pShaderManager, m_textureIDs, imageBuffers, glBound,
                       drawLog >>
       /\ UNCHANGED mainVars
       /\ UNCHANGED viewVars

(***************************************************************************)
(* DbHelper::ensureSchema.  The three CREATE TABLE IF NOT EXISTS           *)
(* statements run in order through exec; nExec is how many of them         *)
(* sqlite3_exec carries out before one fails (3: none fails).  The result  *)
(* is the return value, the tables of the file and the sqlite calls made.  *)
(***************************************************************************)
SchemaTables == << "profiles", "telemetry", "errors" >>

ExecOutcomes == 0..3

ensureSchemaResult(open, tables, nExec) ==
    IF ~open
      THEN [ret |-> FALSE, tables |-> tables, sqlite |-> 0]
      ELSE [ret    |-> (nExec = 3),
            tables |-> tables \cup {SchemaTables[i] : i \in 1..nExec},
            sqlite |-> Min(nExec + 1, 3)]

(***************************************************************************)
(* DbHelper::DbHelper.  open: sqlite3_open succeeds.  The constructor      *)
(* calls ensureSchema on an opened handle and does not look at its result. *)
(***************************************************************************)
DbHelperCtor(open, nExec) ==
    LET r == ensureSchemaResult(open, db_tables, nExec) IN
    /\ dbOpen' = open
    /\ db_tables' = r.tables
    /\ lastOp' = [op |-> "DbHelper", open |-> open, schema |-> r.ret]
    /\ sinkWrites' = << >>
    /\ UNCHANGED << sink, nEvents, m_objectMaterials, telemetryAccum, telemetry,
                    db_profiles, db_errors >>
    /\ UNCHANGED sceneVars
    /\ UNCHANGED texVars
    /\ UNCHANGED viewVars

(***************************************************************************)
(* main, before the loop: the DbHelper is constructed; sqlite3_open        *)
(* succeeds or fails (open), and main goes on either way.                  *)
(***************************************************************************)
OpenDb(open) == DbHelperCtor(open, 3)

(***************************************************************************)
(* DbHelper::logTelemetry(fps, frameMs), on an open store.                 *)
(***************************************************************************)
logTelemetry(rows, fps, frameMs) == Append(rows, [fps |-> fps, frame_ms |-> frameMs])

(***************************************************************************)
(* main, after the loop: the telemetry block.  deltaTime is the value the  *)
(* block reads, in milliseconds; fps is in whole frames per second.        *)
(***************************************************************************)
TelemetryBlock_NoThreshold(deltaTime) ==
    LET accum == telemetryAccum + deltaTime
        fires == dbOpen
        fps   == IF deltaTime > 0 THEN 1000 \div deltaTime ELSE 0
    IN /\ telemetry' = IF fires THEN logTelemetry(telemetry, fps, deltaTime)
                                ELSE telemetry
       /\ telemetryAccum' = IF fires THEN 0 ELSE accum
       /\ lastOp' = [op |-> "telemetry", deltaTime |-> deltaTime,
                     accum |-> accum, called |-> fires]
       /\ sinkWrites' = << >>
       /\ UNCHANGED << sink, nEvents, m_objectMaterials, dbOpen >>
       /\ UNCHANGED dbVars
       /\ UNCHANGED sceneVars
       /\ UNCHANGED texVars
       /\ UNCHANGED viewVars

TelemetryBlock(deltaTime) ==
    LET accum == telemetryAccum + deltaTime
        fires == dbOpen /\ accum >= 1000
        fps   == IF deltaTime > 0 THEN 1000 \div deltaTime ELSE 0
    IN /\ telemetry' = IF fires THEN logTelemetry(telemetry, fps, deltaTime)
                                ELSE telemetry
       /\ telemetryAccum' = IF fires THEN 0 ELSE accum
       /\ lastOp' = [op |-> "telemetry", deltaTime |-> deltaTime,
                     accum |-> accum, called |-> fires]
       /\ sinkWrites' = << >>
       /\ UNCHANGED << sink, nEvents, m_objectMaterials, dbOpen >>
       /\ UNCHANGED dbVars
       /\ UNCHANGED sceneVars
       /\ UNCHANGED texVars
       /\ UNCHANGED viewVars

(***************************************************************************)
(* main, teardown: the managers are deleted and the store is closed.       *)
(* calls lists the functions the teardown runs, in order.                  *)
(***************************************************************************)
Teardown_KeepStore ==
    /\ m_pShaderManager' = FALSE
    /\ m_loadedMeshes' = {}
    /\ dbOpen' = dbOpen
    /\ lastOp' = [op |-> "teardown",
                  calls |-> << "~SceneManager", "~ShapeMeshes", "~ViewManager",
                               "~ShaderManager", "exit" >>]
    /\ sinkWrites' = << >>
    /\ UNCHANGED << sink, nEvents, m_objectMaterials, m_textureIDs, imageBuffers,
                    glBound, drawLog, telemetryAccum, telemetry >>
    /\ UNCHANGED dbVars
    /\ UNCHANGED texVars
    /\ UNCHANGED viewVars

Teardown ==
    /\ m_pShaderManager' = FALSE
    /\ m_loadedMeshes' = {}
    /\ dbOpen' = FALSE
    /\ lastOp' = [op |-> "teardown",
                  calls |-> << "~SceneManager", "~ShapeMeshes", "~ViewManager",
                               "~ShaderManager", "~DbHelper", "DbHelper::close",
                               "exit" >>]
    /\ sinkWrites' = << >>
    /\ UNCHANGED << sink, nEvents, m_objectMaterials, m_textureIDs, imageBuffers,
                    glBound, drawLog, telemetryAccum, telemetry >>
    /\ UNCHANGED dbVars
    /\ UNCHANGED texVars
    /\ UNCHANGED viewVars

(***************************************************************************)
(* main.  Its position is read off the last operation: the loop test       *)
(* follows PrepareScene and every pass through glfwPollEvents (which runs  *)
(* the input callbacks); RenderScene follows PrepareSceneView; the         *)
(* telemetry block follows the loop and the teardown follows it.           *)
(***************************************************************************)
MaxMainFrames == 2
MaxMainMouse  == 1

MainDecodes    == {0, 3}
MainKeySets    == { {}, {"W"}, {"ESCAPE"} }
MainDeltas     == {16, 600}
MainDeltaTimes == {0, 16, 1000}

AtPoll     == lastOp.op \in {"RenderScene", "Mouse_Position_Callback"}
AtLoopTest == lastOp.op = "PrepareScene" \/ AtPoll

NextMain ==
    \/ /\ lastOp.op = "construct"
       /\ \E open \in BOOLEAN : OpenDb(open)
    \/ /\ lastOp.op = "DbHelper"
       /\ \E c1, c2, c3 \in MainDecodes : PrepareScene(c1, c2, c3, 1, 2, 3)
    \/ /\ AtLoopTest
       /\ ~shouldClose
       /\ nEvents.frames < MaxMainFrames
       /\ \E delta \in MainDeltas, keys \in MainKeySets :
            PrepareSceneView(delta, keys)
    \/ /\ lastOp.op = "PrepareSceneView"
       /\ RenderScene
    \/ /\ AtPoll
       /\ nEvents.mouse < MaxMainMouse
       /\ \E x \in MouseXs : Mouse_Position_Callback(x, 0)
    \/ /\ AtLoopTest
       /\ shouldClose
       /\ \E deltaTime \in MainDeltaTimes : TelemetryBlock(deltaTime)
    \/ /\ lastOp.op = "telemetry"
       /\ Teardown

SpecMain == Init /\ [][NextMain]_vars

(***************************************************************************)
(* main is one sequential thread: inside a frame it goes on from           *)
(* PrepareSceneView to RenderScene, and once the loop test finds the close *)
(* request it goes on to the telemetry block and the teardown.  Input      *)
(* events and further key presses are the user's and are not forced.       *)
(* RenderSceneStep is the RenderScene disjunct of NextMain seen on lastOp. *)
(***************************************************************************)
RenderSceneStep ==
    /\ lastOp.op = "PrepareSceneView"
    /\ m_pShaderManager
    /\ lastOp' = [op |-> "RenderScene"]

LeaveLoop ==
    /\ AtLoopTest
    /\ shouldClose
    /\ \E deltaTime \in MainDeltaTimes : TelemetryBlock(deltaTime)

SpecMainLive ==
    /\ Init /\ [][NextMain]_vars
    /\ WF_lastOp(RenderSceneStep)
    /\ WF_vars(LeaveLoop)
    /\ WF_vars(lastOp.op = "telemetry" /\ Teardown)

(***************************************************************************)
(* SetTransformations on its own, on a SceneManager constructed with or    *)
(* without a shader manager.                                               *)
(***************************************************************************)
InitTransform ==
    /\ m_pShaderManager \in BOOLEAN
    /\ m_textureMap = << >>
    /\ glTextures = << >>
    /\ m_sceneTex = [s \in SceneSlots |-> 0]
    /\ sceneDecoded = NotLoaded
    /\ m_objectMaterials = << >>
    /\ sink = [n \in UniformNames |-> Unset]
    /\ sinkWrites = << >>
    /\ m_firstMouse = TRUE
    /\ m_lastX = cfg.windowWidth \div 2
    /\ m_lastY = cfg.windowHeight \div 2
    /\ camera = InitCamera
    /\ m_isOrtho = FALSE
    /\ gDeltaTime = 0
    /\ gLastFrame = 0
    /\ shouldClose = FALSE
    /\ winSize = <<cfg.windowWidth, cfg.windowHeight>>
    /\ pushedCam = Unset
    /\ nEvents = [mouse |-> 0, scroll |-> 0, frames |-> 0]
    /\ lastOp = [op |-> "construct"]
    /\ m_textureIDs = << >>
    /\ imageBuffers = 0
    /\ m_loadedMeshes = {}
    /\ glBound = 0
    /\ drawLog = << >>
    /\ dbOpen = FALSE
    /\ telemetryAccum = 0
    /\ telemetry = << >>
    /\ db_tables = {}
    /\ db_profiles = {}
    /\ db_errors = << >>

ScaleInputs    == {<<1000, 1000, 1000>>, <<2000, 3000, 500>>}
AngleInputs    == {0, 90, -90, 180}
PositionInputs == {<<0, 0, 0>>, <<1000, -2000, 3000>>}

NextTransform ==
    \E scaleXYZ \in ScaleInputs, X \in AngleInputs, Y \in AngleInputs,
       Z \in AngleInputs, positionXYZ \in PositionInputs :
        SetTransformations(scaleXYZ, X, Y, Z, positionXYZ)

SpecTransform == InitTransform /\ [][NextTransform]_vars

(***************************************************************************)
(* The texture registry with the scene textures: PrepareScene at most      *)
(* once, first (as main does), then both CreateGLTexture overloads,        *)
(* SetShaderTexture and DestroyGLTextures in any order.                    *)
(***************************************************************************)
MaxLegacy == 2

RegistryFiles == {"missing.png", "greyalpha.png", "rgb.jpg"}
LegacyFiles   == {"missing.png", "grey.png", "rgba.png"}

FirstFree(gl) == {h \in FreeHandles(gl) : \A k \in FreeHandles(gl) : h <= k}

NextRegistry ==
    \/ /\ lastOp.op = "construct"
       /\ \E c1 \in MainDecodes : PrepareScene(c1, 3, 3, 1, 2, 3)
    \/ \E tag \in Tags, file \in RegistryFiles :
         \E h \in FirstFree(glTextures) : CreateGLTexture(tag, file, TRUE, h)
    \/ /\ Len(m_textureIDs) + imageBuffers < MaxLegacy
       /\ \E tag \in Tags, file \in LegacyFiles :
            \E h \in FirstFree(glTextures) : CreateGLTexture_cstr(file, tag, h)
    \/ \E tag \in Tags : SetShaderTexture(tag)
    \/ DestroyGLTextures

SpecRegistry == Init /\ [][NextRegistry]_vars

(***************************************************************************)
(* DbHelper operations.  ok says whether sqlite carries the statement out  *)
(* (sqlite3_step returns SQLITE_DONE); sqlite3_prepare_v2 fails when the   *)
(* table of the statement does not exist.  lastOp.sqlite counts the        *)
(* sqlite calls the operation made on the handle.                          *)
(***************************************************************************)
dbUnchangedRest ==
    /\ sinkWrites' = << >>
    /\ UNCHANGED << sink, nEvents, m_objectMaterials, telemetryAccum >>
    /\ UNCHANGED sceneVars
    /\ UNCHANGED texVars
    /\ UNCHANGED viewVars

ensureSchema(nExec) ==
    LET r == ensureSchemaResult(dbOpen, db_tables, nExec) IN
    /\ db_tables' = r.tables
    /\ lastOp' = [op |-> "ensureSchema", ret |-> r.ret, sqlite |-> r.sqlite]
    /\ UNCHANGED << dbOpen, telemetry, db_profiles, db_errors >>
    /\ dbUnchangedRest

close ==
    /\ dbOpen' = FALSE
    /\ lastOp' = [op |-> "close", sqlite |-> IF dbOpen THEN 1 ELSE 0]
    /\ UNCHANGED << telemetry, db_tables, db_profiles, db_errors >>
    /\ dbUnchangedRest

Upsert(rows, row) == {r \in rows : r.name # row.name} \cup {row}

InsertOrIgnore(rows, row) ==
    IF \E r \in rows : r.name = row.name THEN rows ELSE rows \cup {row}

saveCameraProfile_InsertOrIgnore(name, pos, fov, projection, ok) ==
    LET row == [name |-> name, camera_pos_x |-> pos[1], camera_pos_y |-> pos[2],
                camera_pos_z |-> pos[3], fov |-> fov, projection |-> projection]
        prepared == dbOpen /\ "profiles" \in db_tables
        done == prepared /\ ok
    IN /\ db_profiles' = IF done THEN InsertOrIgnore(db_profiles, row)
                                 ELSE db_profiles
       /\ lastOp' = [op |-> "saveCameraProfile", name |-> name, row |-> row,
                     ret |-> done,
                     existed |-> (\E r \in db_profiles : r.name = name),
                     sqlite |-> IF ~dbOpen THEN 0 ELSE IF prepared THEN 9 ELSE 1]
       /\ UNCHANGED << dbOpen, telemetry, db_tables, db_errors >>
       /\ dbUnchangedRest

saveCameraProfile(name, pos, fov, projection, ok) ==
    LET row == [name |-> name, camera_pos_x |-> pos[1], camera_pos_y |-> pos[2],
                camera_pos_z |-> pos[3], fov |-> fov, projection |-> projection]
        prepared == dbOpen /\ "profiles" \in db_tables
        done == prepared /\ ok
    IN /\ db_profiles' = IF done THEN Upsert(db_profiles, row) ELSE db_profiles
       /\ lastOp' = [op |-> "saveCameraProfile", name |-> name, row |-> row,
                     ret |-> done,
                     existed |-> (\E r \in db_profiles : r.name = name),
                     sqlite |-> IF ~dbOpen THEN 0 ELSE IF prepared THEN 9 ELSE 1]
       /\ UNCHANGED << dbOpen, telemetry, db_tables, db_errors >>
       /\ dbUnchangedRest

logTelemetryCall(fps, frameMs, ok) ==
    LET prepared == dbOpen /\ "telemetry" \in db_tables
        done == prepared /\ ok
    IN /\ telemetry' = IF done THEN logTelemetry(telemetry, fps, frameMs)
                               ELSE telemetry
       /\ lastOp' = [op |-> "logTelemetry", ret |-> done,
                     sqlite |-> IF ~dbOpen THEN 0 ELSE IF prepared THEN 5 ELSE 1]
       /\ UNCHANGED << dbOpen, db_tables, db_profiles, db_errors >>
       /\ dbUnchangedRest

logError_NoGuard(source, message, ok) ==
    LET prepared == "errors" \in db_tables
        done == prepared /\ ok
    IN /\ db_errors' = IF done
                         THEN Append(db_errors, [source |-> source,
                                                 message |-> message])
                         ELSE db_errors
       /\ lastOp' = [op |-> "logError", ret |-> done,
                     sqlite |-> IF prepared THEN 5 ELSE 1]
       /\ UNCHANGED << dbOpen, telemetry, db_tables, db_profiles >>
       /\ dbUnchangedRest

logError(source, message, ok) ==
    LET prepared == dbOpen /\ "errors" \in db_tables
        done == prepared /\ ok
    IN /\ db_errors' = IF done
                         THEN Append(db_errors, [source |-> source,
                                                 message |-> message])
                         ELSE db_errors
       /\ lastOp' = [op |-> "logError", ret |-> done,
                     sqlite |-> IF ~dbOpen THEN 0 ELSE IF prepared THEN 5 ELSE 1]
       /\ UNCHANGED << dbOpen, telemetry, db_tables, db_profiles >>
       /\ dbUnchangedRest

(***************************************************************************)
(* The store on its own: a DbHelper is constructed, then its operations    *)
(* are called in any order.                                                *)
(***************************************************************************)
MaxDbRows == 1

ProfileNames     == {"default", "top"}
ProfilePositions == {<<0, 5000, 12000>>, <<0, 20000, 0>>}
ProfileFovs      == {80000}
ProfileModes     == {"ORTHO", "PERSPECTIVE"}

NextDb ==
    \/ /\ lastOp.op = "construct"
       /\ \E open \in BOOLEAN, nExec \in ExecOutcomes : DbHelperCtor(open, nExec)
    \/ /\ lastOp.op # "construct"
       /\ \E nExec \in ExecOutcomes : ensureSchema(nExec)
    \/ /\ lastOp.op # "construct"
       /\ close
    \/ /\ lastOp.op # "construct"
       /\ \E name \in ProfileNames, pos \in ProfilePositions, fov \in ProfileFovs,
             projection \in ProfileModes, ok \in BOOLEAN :
            saveCameraProfile(name, pos, fov, projection, ok)
    \/ /\ lastOp.op # "construct"
       /\ Len(telemetry) < MaxDbRows
       /\ \E ok \in BOOLEAN : logTelemetryCall(60, 16, ok)
    \/ /\ lastOp.op # "construct"
       /\ Len(db_errors) < MaxDbRows
       /\ \E ok \in BOOLEAN : logError("Main", "failure", ok)

SpecDb == Init /\ [][NextDb]_vars

(***************************************************************************)
(* The light flags across main's run.  The shader program's uniforms live  *)
(* in the GL program object, which SetupSceneLights does not create: they  *)
(* start at whatever the program held (never written, or each flag 0 or    *)
(* 1).  main then runs PrepareScene once and the frame loop.               *)
(***************************************************************************)
ActiveFlagNames == {"bUseLighting", "directionalLight.bActive",
                    "pointLights[0].bActive", "pointLights[1].bActive",
                    "pointLights[2].bActive", "pointLights[3].bActive",
                    "pointLights[4].bActive", "spotLight.bActive"}

StaleFlags == [ActiveFlagNames -> {<<0>>, <<1>>}]
                \cup {[n \in ActiveFlagNames |-> Unset]}

InitLights ==
    /\ m_textureMap = << >>
    /\ glTextures = << >>
    /\ m_sceneTex = [s \in SceneSlots |-> 0]
    /\ sceneDecoded = NotLoaded
    /\ m_objectMaterials = << >>
    /\ \E f \in StaleFlags :
         sink = [n \in UniformNames |->
                   IF n \in ActiveFlagNames THEN f[n] ELSE Unset]
    /\ sinkWrites = << >>
    /\ m_firstMouse = TRUE
    /\ m_lastX = cfg.windowWidth \div 2
    /\ m_lastY = cfg.windowHeight \div 2
    /\ camera = InitCamera
    /\ m_isOrtho = FALSE
    /\ gDeltaTime = 0
    /\ gLastFrame = 0
    /\ shouldClose = FALSE
    /\ winSize = <<cfg.windowWidth, cfg.windowHeight>>
    /\ pushedCam = Unset
    /\ nEvents = [mouse |-> 0, scroll |-> 0, frames |-> 0]
    /\ lastOp = [op |-> "construct"]
    /\ m_pShaderManager = TRUE
    /\ m_textureIDs = << >>
    /\ imageBuffers = 0
    /\ m_loadedMeshes = {}
    /\ glBound = 0
    /\ drawLog = << >>
    /\ dbOpen = FALSE
    /\ telemetryAccum = 0
    /\ telemetry = << >>
    /\ db_tables = {}
    /\ db_profiles = {}
    /\ db_errors = << >>

LightKeySets == { {}, {"ESCAPE"} }

NextLights ==
    \/ /\ lastOp.op = "construct"
       /\ PrepareScene(3, 3, 3, 1, 2, 3)
    \/ /\ AtLoopTest
       /\ ~shouldClose
       /\ nEvents.frames < MaxMainFrames
       /\ \E keys \in LightKeySets : PrepareSceneView(16, keys)
    \/ /\ lastOp.op = "PrepareSceneView"
       /\ RenderScene

SpecLights == InitLights /\ [][NextLights]_vars

(***************************************************************************)
(*                              Properties                                 *)
(***************************************************************************)
MappedHandles == {m_textureMap[t] : t \in DOMAIN m_textureMap}

(* C1: after any sequence of CreateGLTexture calls the map holds one      *)
(* handle per tag, no two tags share a handle, and the live GL textures    *)
(* are exactly the handles stored in the map (a replaced handle is         *)
(* deleted, not leaked).                                                   *)
C1_NoLeakOnReload ==
    /\ DOMAIN m_textureMap \subseteq Tags
    /\ \A t1, t2 \in DOMAIN m_textureMap :
          t1 # t2 => m_textureMap[t1] # m_textureMap[t2]
    /\ 0 \notin MappedHandles
    /\ DOMAIN glTextures = MappedHandles

C1_Witness ==
    /\ lastOp.op = "CreateGLTexture"
    /\ lastOp.ret
    /\ lastOp.replaced # 0
    /\ lastOp.replaced \notin DOMAIN glTextures
    /\ Cardinality(DOMAIN m_textureMap) = 2

(* C2: every texture load path fails on a decoded image whose channel      *)
(* count is not 1, 3 or 4, and no such image is uploaded: CreateGLTexture  *)
(* returns false, LoadTexture returns 0, and no live texture holds an      *)
(* image of another channel count.                                         *)
C2_UnsupportedChannelsRejected ==
    /\ \A h \in DOMAIN glTextures :
          glTextures[h] # NoImage => glTextures[h].channels \in {1, 3, 4}
    /\ \A slot \in SceneSlots :
          sceneDecoded[slot] \in {0, 2} => m_sceneTex[slot] = 0
    /\ (lastOp.op = "CreateGLTexture" /\ stbi_load(lastOp.file) \notin {1, 3, 4})
          => ~lastOp.ret

(* C2, the part the code keeps: loadTextureFromFile behind CreateGLTexture *)
(* rejects the channel counts other than 1, 3 and 4.                       *)
C2_CreateGLTextureRejects ==
    /\ \A h \in DOMAIN glTextures : glTextures[h].channels \in {1, 3, 4}
    /\ (lastOp.op = "CreateGLTexture" /\ stbi_load(lastOp.file) \notin {1, 3, 4})
          => ~lastOp.ret

TagsIn(list) == {list[i].tag : i \in 1..Len(list)}

(* C3: with a non-empty material list and a tag that is not in it,         *)
(* FindMaterial returns false and SetShaderMaterial writes none of the     *)
(* material.* uniforms.                                                    *)
C3_MissingMaterialNoWrites ==
    (/\ lastOp.op = "SetShaderMaterial"
     /\ Len(m_objectMaterials) > 0
     /\ lastOp.tag \notin TagsIn(m_objectMaterials))
    => (~lastOp.found /\ sinkWrites = << >>)

EntriesFor(tag) == {i \in 1..Len(m_objectMaterials) : m_objectMaterials[i].tag = tag}

MaterialsDefined == sink["material.shininess"] # Unset

(* C4: once a material has been defined, the material table holds exactly  *)
(* one entry for its tag, and a following SetShaderMaterial of that tag    *)
(* finds it and pushes the defined diffuse, specular and shininess.        *)
C4_DefinedMaterialFound ==
    MaterialsDefined =>
      \E tag \in MaterialTags :
        /\ Cardinality(EntriesFor(tag)) = 1
        /\ (lastOp.op = "SetShaderMaterial" /\ lastOp.tag = tag) =>
             /\ lastOp.found
             /\ sinkWrites = << "material.diffuseColor", "material.specularColor",
                                "material.shininess" >>
             /\ sink["material.diffuseColor"] = << DefinedMaterial.diffuseColor >>
             /\ sink["material.specularColor"] = << DefinedMaterial.specularColor >>
             /\ sink["material.shininess"] = << DefinedMaterial.shininess >>

MouseStep == /\ lastOp'.op = "Mouse_Position_Callback"
             /\ nEvents'.mouse = nEvents.mouse + 1

(* C5: the first mouse-move event of the session only seeds the tracking   *)
(* state (lastX, lastY become the event's coordinates, the first-move flag *)
(* is cleared) and passes the offset (0, 0) to the camera; yaw and pitch   *)
(* are the same after it as before.                                        *)
C5_FirstMoveOnlySeeds ==
    [][ (m_firstMouse /\ MouseStep) =>
          /\ m_lastX' = lastOp'.x
          /\ m_lastY' = lastOp'.y
          /\ ~m_firstMouse'
          /\ lastOp'.xOffset = 0
          /\ lastOp'.yOffset = 0
          /\ camera'.Yaw = camera.Yaw
          /\ camera'.Pitch = camera.Pitch ]_vars

C5_Witness ==
    /\ lastOp.op = "Mouse_Position_Callback"
    /\ nEvents.mouse = 1
    /\ ~m_firstMouse
    /\ m_lastX # cfg.windowWidth \div 2
    /\ m_lastY # cfg.windowHeight \div 2
    /\ camera.Yaw = DefaultYaw

(* C6: every mouse-move event after the first passes the camera the offset *)
(* (x - lastX, lastY - y) taken against the preceding event's coordinates; *)
(* after every event lastX, lastY are that event's coordinates; the        *)
(* first-move flag, once cleared, stays cleared.                           *)
C6_OffsetsFromPreviousEvent ==
    [][ /\ (~m_firstMouse /\ MouseStep) =>
             /\ lastOp'.xOffset = lastOp'.x - m_lastX
             /\ lastOp'.yOffset = m_lastY - lastOp'.y
             /\ camera' = ProcessMouseMovement(camera, lastOp'.x - m_lastX,
                                               m_lastY - lastOp'.y)
        /\ MouseStep => (m_lastX' = lastOp'.x /\ m_lastY' = lastOp'.y)
        /\ ~m_firstMouse => ~m_firstMouse' ]_vars

C6_Witness ==
    /\ lastOp.op = "Mouse_Position_Callback"
    /\ nEvents.mouse >= 2
    /\ lastOp.xOffset = -400
    /\ lastOp.yOffset = 1000
    /\ m_lastX = 100
    /\ m_lastY = 0

FrameStep == /\ lastOp'.op = "PrepareSceneView"
             /\ nEvents'.frames = nEvents.frames + 1

(* C8: a frame that switches the projection mode while the camera is as it *)
(* was at the previous frame pushes the same view matrix and viewPosition  *)
(* as the previous frame and a different projection matrix.                *)
C8_ToggleKeepsView ==
    [][ (/\ FrameStep
         /\ nEvents.frames >= 1
         /\ pushedCam' = pushedCam
         /\ m_isOrtho' # m_isOrtho)
        => /\ sink'["view"] = sink["view"]
           /\ sink'["viewPosition"] = sink["viewPosition"]
           /\ sink'["projection"] # sink["projection"] ]_vars

C8_Witness ==
    /\ lastOp.op = "PrepareSceneView"
    /\ nEvents.frames >= 2
    /\ lastOp.modeChanged
    /\ lastOp.cameraSame
    /\ m_isOrtho

WindowAspect == (winSize[1] * 1000) \div winSize[2]

(* C9: in every Orthographic frame, whatever the window's frame size has   *)
(* been changed to, the orthographic width equals the orthographic height  *)
(* times the window's current aspect ratio.                                *)
C9_OrthoFollowsWindowAspect ==
    (lastOp.op = "PrepareSceneView" /\ m_isOrtho) =>
       LET p == sink["projection"][1] IN
       /\ p.kind = "ortho"
       /\ p.right - p.left = ((p.top - p.bottom) * WindowAspect) \div 1000

(* C10 as stated: the orthographic volume has bottom = -10 and top = +10   *)
(* (half-height 10 units), and both modes use near 0.1 and far 100.0.      *)
C10_HalfHeightTen ==
    lastOp.op = "PrepareSceneView" =>
       LET p == sink["projection"][1] IN
       /\ p.near = 100
       /\ p.far = 100000
       /\ (m_isOrtho => (p.kind = "ortho" /\ p.bottom = -10000 /\ p.top = 10000))

(* C10, amended: the orthographic volume is 10 units tall, bottom = -5 and *)
(* top = +5 (half-height 5 units), and both modes use near 0.1 and far     *)
(* 100.0.                                                                  *)
C10_HeightTen ==
    lastOp.op = "PrepareSceneView" =>
       LET p == sink["projection"][1] IN
       /\ p.near = 100
       /\ p.far = 100000
       /\ (m_isOrtho => (p.kind = "ortho" /\ p.bottom = -5000 /\ p.top = 5000
                         /\ p.top - p.bottom = 10000))
       /\ (~m_isOrtho => p.kind = "perspective")

C10_Witness ==
    /\ lastOp.op = "PrepareSceneView"
    /\ m_isOrtho
    /\ sink["projection"][1].kind = "ortho"
    /\ nEvents.frames >= 2

(* C11: logTelemetry is called only where the store is open and the        *)
(* accumulated time has reached one second (1000 ms); the accumulator is   *)
(* reset to 0 right after the call, so every call adds exactly one row     *)
(* that stands for at least one accumulated second.                        *)
C11_TelemetryOnlyAfterOneSecond ==
    [][ (telemetry' # telemetry) =>
           /\ dbOpen
           /\ lastOp'.op = "telemetry"
           /\ telemetryAccum + lastOp'.deltaTime >= 1000
           /\ telemetryAccum' = 0
           /\ Len(telemetry') = Len(telemetry) + 1 ]_vars

C11_Witness ==
    /\ lastOp.op = "telemetry"
    /\ lastOp.called
    /\ Len(telemetry) = 1
    /\ telemetryAccum = 0

(* C12: while the render loop runs with the store open, a telemetry row    *)
(* has been written by the end of any frame in which the frame times of    *)
(* the loop have added up to one second (1000 ms) since the last row.      *)
C12_TelemetryDuringRendering ==
    (lastOp.op = "RenderScene" /\ dbOpen /\ gLastFrame >= 1000)
       => Len(telemetry) >= 1

(***************************************************************************)
(* The product T * Rz * Ry * Rx * S, column by column: column j is the     *)
(* image of the j-th unit vector under scale, then rotation about x, y     *)
(* and z; the fourth column is the translation.                            *)
(***************************************************************************)
Scaled(s, v) == << (s[1] * v[1]) \div ONE, (s[2] * v[2]) \div ONE,
                   (s[3] * v[3]) \div ONE >>

RotatedX(deg, v) == << v[1],
                       (cos(deg) * v[2] - sin(deg) * v[3]) \div ONE,
                       (sin(deg) * v[2] + cos(deg) * v[3]) \div ONE >>

RotatedY(deg, v) == << (cos(deg) * v[1] + sin(deg) * v[3]) \div ONE,
                       v[2],
                       (cos(deg) * v[3] - sin(deg) * v[1]) \div ONE >>

RotatedZ(deg, v) == << (cos(deg) * v[1] - sin(deg) * v[2]) \div ONE,
                       (sin(deg) * v[1] + cos(deg) * v[2]) \div ONE,
                       v[3] >>

ImageOf(s, x, y, z, v) == RotatedZ(z, RotatedY(y, RotatedX(x, Scaled(s, v))))

TRzRyRxS(s, x, y, z, p) ==
    LET c1 == ImageOf(s, x, y, z, <<ONE, 0, 0>>)
        c2 == ImageOf(s, x, y, z, <<0, ONE, 0>>)
        c3 == ImageOf(s, x, y, z, <<0, 0, ONE>>)
    IN << <<c1[1], c2[1], c3[1], p[1]>>,
          <<c1[2], c2[2], c3[2], p[2]>>,
          <<c1[3], c2[3], c3[3], p[3]>>,
          <<0, 0, 0, ONE>> >>

(* C13: SetTransformations writes T * Rz * Ry * Rx * S of its arguments to *)
(* the uniform "model" and nothing else; with a null shader manager it     *)
(* writes nothing.                                                         *)
C13_ModelIsTRzRyRxS ==
    lastOp.op = "SetTransformations" =>
       IF m_pShaderManager
         THEN /\ sinkWrites = << "model" >>
              /\ sink["model"] = << TRzRyRxS(lastOp.scaleXYZ, lastOp.X, lastOp.Y,
                                             lastOp.Z, lastOp.positionXYZ) >>
              /\ \A n \in UniformNames \ {"model"} : sink[n] = Unset
         ELSE /\ sinkWrites = << >>
              /\ \A n \in UniformNames : sink[n] = Unset

C13_Witness ==
    /\ lastOp.op = "SetTransformations"
    /\ m_pShaderManager
    /\ lastOp.X = 90
    /\ lastOp.Z = -90
    /\ lastOp.scaleXYZ = <<2000, 3000, 500>>
    /\ lastOp.positionXYZ = <<1000, -2000, 3000>>
    /\ sink["model"] # Unset

C13_NullShaderWitness ==
    /\ lastOp.op = "SetTransformations"
    /\ ~m_pShaderManager
    /\ lastOp.Y = 90

(* C14: in RenderScene every mesh draw is preceded, after the previous     *)
(* draw, by a SetTransformations call with that object's own scale,        *)
(* rotation and position: the model matrix in effect at the draw is the    *)
(* one computed from those arguments, and no two draws of a frame share    *)
(* arguments or a model matrix.                                            *)
C14_EachDrawOwnTransform ==
    lastOp.op = "RenderScene" =>
       /\ Len(drawLog) = 11
       /\ \A i \in 1..Len(drawLog) :
            /\ drawLog[i].transforms >= 1
            /\ drawLog[i].args.op = "SetTransformations"
            /\ drawLog[i].model =
                 << modelView(drawLog[i].args.scaleXYZ, drawLog[i].args.X,
                              drawLog[i].args.Y, drawLog[i].args.Z,
                              drawLog[i].args.positionXYZ) >>
       /\ \A i, j \in 1..Len(drawLog) :
            i < j => /\ drawLog[i].args # drawLog[j].args
                     /\ drawLog[i].model # drawLog[j].model

C14_Witness ==
    /\ lastOp.op = "RenderScene"
    /\ nEvents.frames = 2
    /\ Len(drawLog) = 11
    /\ drawLog[4].mesh = "TaperedCylinder"
    /\ drawLog[4].args.positionXYZ = <<-1900, 650, 200>>

(***************************************************************************)
(* The objects of the scene in drawing order, with the appearance mode of  *)
(* each: 1 textured, 0 solid colour.                                       *)
(***************************************************************************)
SceneAppearance ==
    << [object |-> "desk plane",      mesh |-> "Plane",           textured |-> 1],
       [object |-> "mouse body",      mesh |-> "Sphere",          textured |-> 1],
       [object |-> "mouse button",    mesh |-> "TaperedCylinder", textured |-> 1],
       [object |-> "mouse button",    mesh |-> "TaperedCylinder", textured |-> 1],
       [object |-> "keyboard",        mesh |-> "Box",             textured |-> 0],
       [object |-> "wrist rest",      mesh |-> "Sphere",          textured |-> 0],
       [object |-> "wrist rest",      mesh |-> "Sphere",          textured |-> 0],
       [object |-> "wrist rest",      mesh |-> "Sphere",          textured |-> 0],
       [object |-> "glasses ring",    mesh |-> "Torus",           textured |-> 0],
       [object |-> "glasses ring",    mesh |-> "Torus",           textured |-> 0],
       [object |-> "glasses bridge",  mesh |-> "Box",             textured |-> 0] >>

(* C15: at every mesh draw of every frame the uniform bUseTexture equals   *)
(* the appearance mode of the object drawn: true for the desk plane, the   *)
(* mouse body and the mouse buttons, false for the keyboard, the wrist     *)
(* rest spheres, the glasses rings and the glasses bridge.                 *)
C15_FlagMatchesAppearance ==
    drawLog # << >> =>
       /\ Len(drawLog) = Len(SceneAppearance)
       /\ \A i \in 1..Len(drawLog) :
            /\ drawLog[i].mesh = SceneAppearance[i].mesh
            /\ drawLog[i].bUseTexture = << SceneAppearance[i].textured >>

C15_Witness ==
    /\ lastOp.op = "RenderScene"
    /\ nEvents.frames = 2
    /\ drawLog[1].bUseTexture = << 1 >>
    /\ drawLog[11].bUseTexture = << 0 >>
    /\ sink["bUseTexture"] = << 0 >>

(* C16: in every loop iteration PrepareSceneView writes view, projection   *)
(* and viewPosition computed from the camera as it is after that frame's   *)
(* keyboard movement, and RenderScene runs right after it, so every draw   *)
(* of the frame is issued with those three values in place.                *)
C16_ViewBeforeDraws ==
    [][ /\ (lastOp'.op = "PrepareSceneView" /\ lastOp' # lastOp) =>
             LET k == ProcessKeyboardEvents(lastOp'.keys, lastOp'.delta) IN
             /\ camera' = k.camera
             /\ sinkWrites' = << "view", "projection", "viewPosition" >>
             /\ sink'["view"] = << GetViewMatrix(k.camera) >>
             /\ sink'["projection"] = << Projection(k.isOrtho, k.camera) >>
             /\ sink'["viewPosition"] = << k.camera.Position >>
        /\ (lastOp'.op = "RenderScene" /\ lastOp' # lastOp) =>
             /\ lastOp.op = "PrepareSceneView"
             /\ \A i \in 1..Len(drawLog') :
                  /\ drawLog'[i].view = << GetViewMatrix(camera) >>
                  /\ drawLog'[i].projection = << Projection(m_isOrtho, camera) >>
                  /\ drawLog'[i].viewPosition = << camera.Position >> ]_vars

C16_Witness ==
    /\ lastOp.op = "RenderScene"
    /\ nEvents.frames = 2
    /\ Len(camera.Position.moves) >= 1
    /\ nEvents.mouse = 1
    /\ drawLog[1].view = << GetViewMatrix(camera) >>

(* C17: after DestroyGLTextures no GL texture created by the SceneManager  *)
(* is live (the GL context holds only such textures), the tag mapping is   *)
(* empty and every FindTextureID / TextureExists lookup reports not-found. *)
C17_DestroyReleasesAll ==
    lastOp.op = "DestroyGLTextures" =>
       /\ DOMAIN glTextures = {}
       /\ DOMAIN m_textureMap = {}
       /\ \A tag \in Tags :
            /\ FindTextureID(m_textureMap, tag) = 0
            /\ ~TextureExists(m_textureMap, tag)

(* C17, the registry half on its own: the mapping is empty and the lookups *)
(* report not-found.                                                       *)
C17_MapEmptied ==
    lastOp.op = "DestroyGLTextures" =>
       /\ DOMAIN m_textureMap = {}
       /\ \A tag \in Tags :
            /\ FindTextureID(m_textureMap, tag) = 0
            /\ ~TextureExists(m_textureMap, tag)

(* C18: on every run that reaches teardown DestroyGLTextures is executed   *)
(* exactly once, before the SceneManager is destroyed.                     *)
C18_TexturesDestroyedAtTeardown ==
    lastOp.op = "teardown" =>
       \E i \in 1..Len(lastOp.calls) :
          /\ lastOp.calls[i] = "DestroyGLTextures"
          /\ \A j \in 1..Len(lastOp.calls) :
               /\ (lastOp.calls[j] = "DestroyGLTextures" => j = i)
               /\ (lastOp.calls[j] = "~ShapeMeshes" => i < j)

(* C19: a not-found sentinel is never used as a draw parameter: the        *)
(* sampler uniform objectTexture is never given slot -1, and no textured   *)
(* draw of RenderScene is issued with texture 0 bound.                     *)
C19_NoSentinelInDraw ==
    /\ sink["objectTexture"] # << -1 >>
    /\ \A i \in 1..Len(drawLog) :
         drawLog[i].bUseTexture = << 1 >> => drawLog[i].texture # 0

(* C19, the sampler half on its own.                                       *)
C19_NoSentinelSlot == sink["objectTexture"] # << -1 >>

CreateOps == {"CreateGLTexture", "CreateGLTexture_cstr"}

(* C20: a CreateGLTexture call that fails changes nothing: the tag mapping *)
(* and the slot table are as before, no installed handle is deleted, and   *)
(* no GL handle or pixel buffer allocated by the call stays live.          *)
C20_FailedCreateChangesNothing ==
    [][ (lastOp'.op \in CreateOps /\ lastOp' # lastOp /\ ~lastOp'.ret) =>
           /\ m_textureMap' = m_textureMap
           /\ m_textureIDs' = m_textureIDs
           /\ glTextures' = glTextures
           /\ imageBuffers' = imageBuffers ]_vars

(* C20 for the (tag, filePath, flipVertically) overload alone.             *)
C20_FailedMapCreateChangesNothing ==
    [][ (lastOp'.op = "CreateGLTexture" /\ lastOp' # lastOp /\ ~lastOp'.ret) =>
           /\ m_textureMap' = m_textureMap
           /\ m_textureIDs' = m_textureIDs
           /\ glTextures' = glTextures
           /\ imageBuffers' = imageBuffers ]_vars

DbCalls == {"saveCameraProfile", "logTelemetry", "logError", "ensureSchema"}

(* C21: while the store is not open, every saveCameraProfile,              *)
(* logTelemetry, logError and ensureSchema call returns false, makes no    *)
(* sqlite call and changes nothing in the store; close leaves the store    *)
(* not open, and a close of a store that is not open does nothing.         *)
C21_ClosedStoreIsNoOp ==
    [][ /\ (~dbOpen /\ lastOp'.op \in DbCalls) =>
             /\ ~lastOp'.ret
             /\ lastOp'.sqlite = 0
             /\ ~dbOpen'
             /\ UNCHANGED << telemetry, db_tables, db_profiles, db_errors >>
        /\ (lastOp'.op = "close") =>
             /\ ~dbOpen'
             /\ UNCHANGED << telemetry, db_tables, db_profiles, db_errors >>
             /\ (~dbOpen => lastOp'.sqlite = 0) ]_vars

C21_Witness ==
    /\ lastOp.op = "logError"
    /\ ~lastOp.ret
    /\ ~dbOpen
    /\ "errors" \in db_tables
    /\ db_profiles # {}

C21_OpenFailedWitness ==
    /\ lastOp.op = "saveCameraProfile"
    /\ ~lastOp.ret
    /\ ~dbOpen
    /\ db_tables = {}

(* C22: the profiles table holds one row per name; a successful            *)
(* saveCameraProfile leaves the row it was called with as the only row of  *)
(* that name and leaves the rows of all other names as they were.          *)
C22_OneRowPerNameLastSaveWins ==
    /\ [](\A r1, r2 \in db_profiles : r1.name = r2.name => r1 = r2)
    /\ [][ (lastOp'.op = "saveCameraProfile" /\ lastOp'.ret) =>
             /\ lastOp'.row \in db_profiles'
             /\ \A r \in db_profiles' : r.name = lastOp'.name => r = lastOp'.row
             /\ {r \in db_profiles' : r.name # lastOp'.name}
                  = {r \in db_profiles : r.name # lastOp'.name} ]_vars

C22_Witness ==
    /\ lastOp.op = "saveCameraProfile"
    /\ lastOp.ret
    /\ lastOp.existed
    /\ Cardinality(db_profiles) = 2
    /\ lastOp.row.projection = "ORTHO"
    /\ \E r \in db_profiles : r.name # lastOp.name /\ r.projection = "PERSPECTIVE"

(* C28: whenever isOpen() is true the tables profiles, telemetry and       *)
(* errors exist, and an ensureSchema call on an open store returns true    *)
(* and changes nothing.                                                    *)
C28_OpenImpliesSchema ==
    dbOpen => {SchemaTables[i] : i \in 1..3} \subseteq db_tables

(* C23: once PrepareScene has run, whatever the sink held before,          *)
(* bUseLighting, directionalLight.bActive and pointLights[0].bActive are   *)
(* true and pointLights[1..4].bActive and spotLight.bActive are false, in  *)
(* every later state; PrepareScene runs once, from the constructed state,  *)
(* writes each of the eight flags exactly once, and no draw is issued      *)
(* before it.                                                              *)
LightsOn  == {"bUseLighting", "directionalLight.bActive", "pointLights[0].bActive"}

C23_EveryLightFlagWritten ==
    /\ [](lastOp.op = "construct" => drawLog = << >>)
    /\ [](lastOp.op # "construct" =>
            \A n \in ActiveFlagNames : sink[n] = << FlagValue(n \in LightsOn) >>)
    /\ [][ (lastOp'.op = "PrepareScene") =>
             /\ lastOp.op = "construct"
             /\ \A n \in ActiveFlagNames :
                  Cardinality({i \in 1..Len(sinkWrites') : sinkWrites'[i] = n}) = 1 ]_vars

C23_Witness ==
    /\ drawLog # << >>
    /\ nEvents.frames = 2
    /\ \A n \in ActiveFlagNames : sink[n] = << FlagValue(n \in LightsOn) >>
    /\ Cardinality({i \in 1..Len(drawLog) : drawLog[i].mesh = "Torus"}) > 0

C23_StaleWitness ==
    /\ lastOp.op = "construct"
    /\ \A n \in ActiveFlagNames : sink[n] = << FlagValue(n \notin LightsOn) >>

(* C24: the projection mode starts as perspective; a frame leaves it       *)
(* orthographic if O is pressed (also with P pressed), perspective if P    *)
(* alone is pressed, and as it was otherwise; every step that is not a     *)
(* frame (mouse move, scroll, resize) leaves it as it was.                 *)
C24_ModeSetOnlyByKeys ==
    /\ ~m_isOrtho
    /\ [][ IF FrameStep
             THEN m_isOrtho' = (IF "O" \in lastOp'.keys THEN TRUE
                                ELSE IF "P" \in lastOp'.keys THEN FALSE
                                ELSE m_isOrtho)
             ELSE m_isOrtho' = m_isOrtho ]_vars

C24_Witness ==
    /\ lastOp.op = "PrepareSceneView"
    /\ lastOp.keys = {"P", "O"}
    /\ m_isOrtho
    /\ ~lastOp.modeChanged
    /\ nEvents.frames = 2

C24_MoveKeysWitness ==
    /\ lastOp.op = "PrepareSceneView"
    /\ lastOp.keys = {"Q", "E"}
    /\ m_isOrtho

(* C25: once the close request is set, no further frame starts; the frame  *)
(* that observed Escape is followed by its RenderScene, and the loop is    *)
(* left only at the loop test after a poll; the program then reaches the   *)
(* teardown, which deletes the scene, view and shader managers and closes  *)
(* the store.                                                              *)
Released ==
    /\ lastOp.op = "teardown"
    /\ {"~SceneManager", "~ViewManager", "~ShaderManager"}
         \subseteq {lastOp.calls[i] : i \in 1..Len(lastOp.calls)}
    /\ ~m_pShaderManager
    /\ m_loadedMeshes = {}
    /\ ~dbOpen

C25_CloseCompletesFrameThenTeardown ==
    /\ [][ /\ shouldClose => ~FrameStep
           /\ lastOp.op = "PrepareSceneView" => lastOp'.op = "RenderScene"
           /\ lastOp'.op = "telemetry" => (shouldClose /\ AtPoll) ]_vars
    /\ (shouldClose ~> Released)

C25_Witness ==
    /\ Released
    /\ shouldClose
    /\ nEvents.frames = 2
    /\ drawLog # << >>
    /\ db_tables # {}

(* C26: every draw RenderScene issues is of a mesh kind that PrepareScene  *)
(* has loaded.                                                             *)
C26_DrawnMeshesLoaded ==
    \A i \in 1..Len(drawLog) : drawLog[i].loaded

(* C26, without the tapered cylinder: every other drawn kind is loaded.    *)
C26_OtherMeshesLoaded ==
    \A i \in 1..Len(drawLog) :
        drawLog[i].mesh # "TaperedCylinder" => drawLog[i].loaded

(* C27: every tag registered by a successful CreateGLTexture, until        *)
(* DestroyGLTextures, is found by TextureExists, resolves through          *)
(* FindTextureID to a live non-zero handle and through FindTextureSlot to  *)
(* a non-negative slot, and SetShaderTexture of it pushes a non-negative   *)
(* sampler slot.                                                           *)
C27_RegisteredTagResolves ==
    /\ \A tag \in DOMAIN m_textureMap :
          /\ TextureExists(m_textureMap, tag)
          /\ FindTextureID(m_textureMap, tag) # 0
          /\ FindTextureID(m_textureMap, tag) \in DOMAIN glTextures
          /\ FindTextureSlot(m_textureIDs, tag) >= 0
    /\ (lastOp.op = "SetShaderTexture" /\ lastOp.tag \in DOMAIN m_textureMap) =>
          lastOp.slot >= 0

(* C27, the map half on its own: TextureExists and FindTextureID.          *)
C27_MapLookupsResolve ==
    \A tag \in DOMAIN m_textureMap :
        /\ TextureExists(m_textureMap, tag)
        /\ FindTextureID(m_textureMap, tag) # 0
        /\ FindTextureID(m_textureMap, tag) \in DOMAIN glTextures

====
